---- MODULE Spec2Model ----
(***************************************************************************)
(* A model of the Qwen3 interactive CLI (src/qwen3_interactive_cli.py):    *)
(* the conversation history and its trim, the session file, the context    *)
(* accountant, the tool executors (solve_math, execute_code, web_search,   *)
(* translate_text), the intent detector and the run loop.                  *)
(*                                                                         *)
(* Python strings are TLA+ strings; TLC evaluates Len, \o and SubSeq on    *)
(* them, so the text operations of the source (lower, strip, split, the    *)
(* regular expressions) are computed character by character.               *)
(***************************************************************************)
EXTENDS Integers, Sequences, FiniteSets, TLC

(***************************************************************************)
(* Python text primitives.                                                 *)
(***************************************************************************)

\* s[i], 1-based
Ch(s, i) == SubSeq(s, i, i)

UpperChars == "ABCDEFGHIJKLMNOPQRSTUVWXYZ"
LowerChars == "abcdefghijklmnopqrstuvwxyz"
DigitChars == "0123456789"

\* the characters str.strip() and str.split() treat as white space
IsSpace(c) == c \in {" ", "\t", "\n", "\r"}

\* str.isdigit() of one character
IsDigit(c) == \E i \in 1..Len(DigitChars) : Ch(DigitChars, i) = c

\* \w of the re module, for the ASCII characters the inputs use
IsWordChar(c) ==
    \/ IsDigit(c)
    \/ c = "_"
    \/ \E i \in 1..26 : Ch(UpperChars, i) = c \/ Ch(LowerChars, i) = c

LowerCh(c) ==
    IF \E i \in 1..26 : Ch(UpperChars, i) = c
    THEN Ch(LowerChars, CHOOSE i \in 1..26 : Ch(UpperChars, i) = c)
    ELSE c

RECURSIVE LowerFrom(_, _)
LowerFrom(s, i) ==
    IF i > Len(s) THEN "" ELSE LowerCh(Ch(s, i)) \o LowerFrom(s, i + 1)

\* str.lower()
Lower(s) == LowerFrom(s, 1)

\* p occurs in s at position i
At(s, i, p) == i >= 1 /\ i + Len(p) - 1 <= Len(s) /\ SubSeq(s, i, i + Len(p) - 1) = p

\* the Python expression  p in s
Contains(s, p) == \E i \in 1..(Len(s) - Len(p) + 1) : At(s, i, p)

\* str.startswith
StartsWith(s, p) == At(s, 1, p)

\* str.strip(): white space removed at both ends
Strip(s) ==
    LET keep == {i \in 1..Len(s) : ~IsSpace(Ch(s, i))}
    IN  IF keep = {} THEN ""
        ELSE SubSeq(s, CHOOSE i \in keep : \A j \in keep : i <= j,
                       CHOOSE i \in keep : \A j \in keep : j <= i)

\* str.strip(chars): the characters of the set cs removed at both ends
StripChars(s, cs) ==
    LET keep == {i \in 1..Len(s) : Ch(s, i) \notin cs}
    IN  IF keep = {} THEN ""
        ELSE SubSeq(s, CHOOSE i \in keep : \A j \in keep : i <= j,
                       CHOOSE i \in keep : \A j \in keep : j <= i)

\* str.split(): the maximal runs of non-space characters, in order
RECURSIVE SplitFrom(_, _)
SplitFrom(s, i) ==
    LET starts == {j \in i..Len(s) : ~IsSpace(Ch(s, j))}
    IN  IF starts = {} THEN <<>>
        ELSE LET b == CHOOSE j \in starts : \A k \in starts : j <= k
                 ends == {j \in b..Len(s) : j = Len(s) \/ IsSpace(Ch(s, j + 1))}
                 e == CHOOSE j \in ends : \A k \in ends : j <= k
             IN  <<SubSeq(s, b, e)>> \o SplitFrom(s, e + 1)

Split(s) == SplitFrom(s, 1)

\* ' '.join(parts)
RECURSIVE Join(_)
Join(parts) ==
    IF Len(parts) = 0 THEN ""
    ELSE IF Len(parts) = 1 THEN parts[1]
    ELSE parts[1] \o " " \o Join(Tail(parts))

(***************************************************************************)
(* Bounds of the model.                                                    *)
(***************************************************************************)

\* add_to_history calls of the history-only specification SpecHist
MaxAppends == 130

\* the length, in characters, of the long input line LongLine stands for
LongLineLen == 1040004

\* input lines read over the sessions of one behaviour
MaxLines == 2

\* fresh starts of the CLI on the same session file after the first one
MaxRestarts == 1

\* the wall-clock limit, in clock ticks, that a child process is measured against
TimeoutTicks == 2

\* the clock of a running child is followed this far
MaxElapsed == TimeoutTicks + 1

\* the first content lengths of SpecHist are shifted by a seed of 0..MaxSeed
MaxSeed == 2

(***************************************************************************)
(* Program constants.                                                      *)
(***************************************************************************)

\* add_to_history trims when the history holds more than this many turns
MaxHistory == 100

\* ... and keeps this many trailing turns
KeepTurns == 80

\* Qwen3CLI.max_context_tokens
max_context_tokens == 260000

\* show_context_info: estimated_tokens = total_chars // 4
CharsPerToken == 4

(***************************************************************************)
(* Values.  The content of a turn is a Python str or None (a completed     *)
(* message of the client has an optional content).                         *)
(***************************************************************************)

Str(s) == [t |-> "str", v |-> s]
PyNone == [t |-> "none", v |-> ""]

\* one line of eight x stands for an input line of LongLineLen characters x
LongLine == "xxxxxxxx"

\* len(s) of a Python str
PyLen(s) ==
    IF Contains(s, LongLine) THEN Len(s) - Len(LongLine) + LongLineLen ELSE Len(s)

\* {"role": role, "content": content}
Turn(role, content) == [role |-> role, content |-> content]

(***************************************************************************)
(* History Store.                                                          *)
(***************************************************************************)

\* h[-n:]
LastN(h, n) == IF Len(h) <= n THEN h ELSE SubSeq(h, Len(h) - n + 1, Len(h))

\* a plausible slip: the trim keeps the leading window, h[:80]
AddToHistory_KeepsHead(h, role, content) ==
    LET a == Append(h, Turn(role, content))
    IN  IF Len(a) > MaxHistory THEN SubSeq(a, 1, KeepTurns) ELSE a

\* Qwen3CLI.add_to_history: the history after the call
AddToHistory(h, role, content) ==
    LET a == Append(h, Turn(role, content))
    IN  IF Len(a) > MaxHistory THEN LastN(a, KeepTurns) ELSE a

(***************************************************************************)
(* Context Budget Accountant.                                              *)
(***************************************************************************)

\* sum(len(msg['content']) for msg in h); every content is a str here
RECURSIVE TotalChars(_)
TotalChars(h) ==
    IF Len(h) = 0 THEN 0 ELSE PyLen(h[1].content.v) + TotalChars(Tail(h))

\* an item of the history is a turn: a dict with a role and a content.  A session
\* file that save_session did not write can put other values in the list.
IsTurn(x) == DOMAIN x = {"role", "content"}

\* msg['content'] of an item that is no dict raises TypeError, and so does
\* len(None)
AllStr(h) == \A i \in 1..Len(h) : IsTurn(h[i]) /\ h[i].content.t = "str"

\* a plausible slip: the remainder taken for the quotient (% for //)
EstimatedTokens_Remainder(h) == TotalChars(h) % CharsPerToken

\* estimated_tokens of show_context_info
EstimatedTokens(h) == TotalChars(h) \div CharsPerToken

\* the values show_context_info prints, or the TypeError it raises
ShowContextInfo(h) ==
    IF AllStr(h)
    THEN [kind |-> "context",
          messages |-> Len(h),
          chars |-> TotalChars(h),
          tokens |-> EstimatedTokens(h),
          available |-> max_context_tokens - EstimatedTokens(h)]
    ELSE [kind |-> "error", messages |-> 0, chars |-> 0, tokens |-> 0, available |-> 0]

(***************************************************************************)
(* Session file.  json.dump writes the history as a JSON document and      *)
(* json.load reads it back: a str is a JSON string, None is null, a list   *)
(* an array, a dict an object.                                             *)
(***************************************************************************)

JString(s) == [type |-> "string", s |-> s]
JNull == [type |-> "null"]
JArray(items) == [type |-> "array", items |-> items]
JObject(members) == [type |-> "object", members |-> members]
Member(k, v) == [key |-> k, value |-> v]

ContentToJson(c) == IF c.t = "none" THEN JNull ELSE JString(c.v)

TurnToJson(t) ==
    JObject(<<Member("role", JString(t.role)), Member("content", ContentToJson(t.content))>>)

\* an item of the list as json.dump writes it: a dict, or a str or None
ItemToJson(x) == IF IsTurn(x) THEN TurnToJson(x) ELSE ContentToJson(x)

\* a plausible slip: turns without content are skipped when writing
JsonDump_SkipsNone(h) ==
    LET kept == SelectSeq(h, LAMBDA t : IsTurn(t) => t.content.t = "str")
    IN  JObject(<<Member("history", JArray([i \in 1..Len(kept) |-> ItemToJson(kept[i])]))>>)

\* json.dump({'history': h}, f, indent=2): the document written
JsonDump(h) ==
    JObject(<<Member("history", JArray([i \in 1..Len(h) |-> ItemToJson(h[i])]))>>)

\* the members of object j under key k, in order
Members(j, k) == SelectSeq(j.members, LAMBDA m : m.key = k)

\* dict.get(k) of a loaded object that has the key (the last member wins)
JGet(j, k) == Members(j, k)[Len(Members(j, k))].value

ContentFromJson(j) == IF j.type = "null" THEN PyNone ELSE Str(j.s)

TurnFromJson(j) == Turn(JGet(j, "role").s, ContentFromJson(JGet(j, "content")))

\* an item of a loaded list: json.load makes a dict of an object, a str of a
\* string, None of null; nothing checks that it is a turn
ItemFromJson(j) == IF j.type = "object" THEN TurnFromJson(j) ELSE ContentFromJson(j)

\* data.get('history', []) of the loaded document, an object whose history
\* member, when it has one, is a list
HistoryFromJson(doc) ==
    IF Len(Members(doc, "history")) = 0 THEN <<>>
    ELSE LET items == JGet(doc, "history").items
         IN  [i \in 1..Len(items) |-> ItemFromJson(items[i])]

\* the session file: absent, a JSON document, or text json.load cannot parse
NoFile == [state |-> "absent", doc |-> JNull]
JsonFile(doc) == [state |-> "json", doc |-> doc]
BrokenFile == [state |-> "unparsable", doc |-> JNull]

(***************************************************************************)
(* Regular expressions of the source, computed as re.search computes them. *)
(* A cue pattern is an alternation; an alternative is a sequence of parts  *)
(* joined by ".*", each part a literal or the digit class "\\d".  The dot  *)
(* does not match a newline.                                               *)
(***************************************************************************)

PartAt(s, i, part) ==
    IF part = "\\d" THEN i >= 1 /\ i <= Len(s) /\ IsDigit(Ch(s, i)) ELSE At(s, i, part)

PartLen(part) == IF part = "\\d" THEN 1 ELSE Len(part)

NoNewline(s, i, j) == \A k \in i..j : Ch(s, k) # "\n"

\* parts[1], ".*", parts[2], ... matched with parts[1] starting at or after from
RECURSIVE MatchParts(_, _, _, _)
MatchParts(s, from, parts, first) ==
    IF Len(parts) = 0 THEN TRUE
    ELSE \E i \in from..Len(s) :
            /\ PartAt(s, i, parts[1])
            /\ first \/ NoNewline(s, from, i - 1)
            /\ MatchParts(s, i + PartLen(parts[1]), Tail(parts), FALSE)

\* re.search(pattern, s) is not None, for one pattern (a sequence of alternatives)
ReSearch(pattern, s) ==
    \E k \in 1..Len(pattern) : MatchParts(s, 1, pattern[k], TRUE)

\* any(re.search(pattern, s) for pattern in patterns)
AnySearch(patterns, s) == \E k \in 1..Len(patterns) : ReSearch(patterns[k], s)

search_patterns ==
    << << <<"let me search">>, <<"let me look up">>, <<"let me find">>,
          <<"searching for">>, <<"looking up">> >>,
       << <<"latest", "news">>, <<"current", "information">>,
          <<"recent", "developments">> >>,
       << <<"what", "happening">>, <<"what", "new">>, <<"latest", "research">> >> >>

math_patterns ==
    << << <<"let me calculate">>, <<"let me solve">>, <<"let me compute">>,
          <<"calculating">>, <<"solving">> >>,
       << <<"what", "is", "\\d">>, <<"how much">>, <<"calculate">>,
          <<"solve", "equation">> >>,
       << <<"+">>, <<"-">>, <<"*">>, <<"/">>, <<"^">>, <<"sqrt">>, <<"factorial">> >> >>

code_patterns ==
    << << <<"let me execute">>, <<"let me run">>, <<"let me test">>,
          <<"executing">>, <<"running">> >>,
       << <<"code", "execution">>, <<"test", "code">>, <<"run", "program">> >>,
       << <<"python", "code">>, <<"javascript", "code">>, <<"execute", "code">> >> >>

translate_patterns ==
    << << <<"let me translate">>, <<"translating to">>, <<"translate", "to">> >>,
       << <<"in", "spanish">>, <<"in", "french">>, <<"in", "german">>,
          <<"in", "italian">> >>,
       << <<"how", "say", "in">>, <<"what", "is", "in", "language">> >> >>

\* a group's cue: the patterns are searched in the lowered reply and the lowered input
Cue(patterns, ai_response, user_input) ==
    AnySearch(patterns, Lower(ai_response)) \/ AnySearch(patterns, Lower(user_input))

(***************************************************************************)
(* A sequence of atoms matched at one position, ignoring case: an atom is  *)
(* a literal (given in lower case) or "\\s+".  The length matched, or -1.  *)
(***************************************************************************)

SpaceRun(s, i) ==
    LET stop == {j \in i..Len(s) + 1 : j = Len(s) + 1 \/ ~IsSpace(Ch(s, j))}
    IN  (CHOOSE j \in stop : \A k \in stop : j <= k) - i

AtomLenAt(s, i, atom) ==
    IF atom = "\\s+"
    THEN (IF i <= Len(s) /\ SpaceRun(s, i) > 0 THEN SpaceRun(s, i) ELSE -1)
    ELSE (IF i + Len(atom) - 1 <= Len(s) /\ Lower(SubSeq(s, i, i + Len(atom) - 1)) = atom
          THEN Len(atom) ELSE -1)

\* the positions after each atom, while the atoms match: <<i, i1, i2, ...>>
RECURSIVE AtomEnds(_, _, _)
AtomEnds(s, i, atoms) ==
    IF Len(atoms) = 0 \/ AtomLenAt(s, i, atoms[1]) < 0 THEN <<i>>
    ELSE <<i>> \o AtomEnds(s, i + AtomLenAt(s, i, atoms[1]), Tail(atoms))

AtomsLenAt(s, i, atoms) ==
    LET ends == AtomEnds(s, i, atoms)
    IN  IF Len(ends) = Len(atoms) + 1 THEN ends[Len(ends)] - i ELSE -1

\* the length of the first alternative that matches at i, or -1
AltLenAt(s, i, alts) ==
    LET hits == {k \in 1..Len(alts) : AtomsLenAt(s, i, alts[k]) >= 0}
    IN  IF hits = {} THEN -1
        ELSE AtomsLenAt(s, i, alts[CHOOSE k \in hits : \A j \in hits : k <= j])

\* the text with every match of the alternation removed, matches taken from
\* left to right, case ignored
RECURSIVE ReSubFrom(_, _, _)
ReSubFrom(s, i, alts) ==
    IF i > Len(s) THEN ""
    ELSE LET n == AltLenAt(s, i, alts)
         IN  (IF n > 0 THEN "" ELSE Ch(s, i))
             \o ReSubFrom(s, IF n > 0 THEN i + n ELSE i + 1, alts)

ReSub(alts, s) == ReSubFrom(s, 1, alts)

\* the least element of a non-empty set of integers
Least(S) == CHOOSE i \in S : \A j \in S : i <= j

(***************************************************************************)
(* Intent Detector: the argument extraction of detect_and_execute_tools.   *)
(* An optional match is a sequence: <<group>> when found, <<>> when not.   *)
(***************************************************************************)

\* a call of a tool executor, as the dispatcher or the detector resolves it
Call(fn, args) == [fn |-> fn, args |-> args]
NoCall == Call("none", <<>>)

\* the end of the run of characters other than '?' that starts at i: [^?]* from i
RunEnd(s, i) ==
    Least({j \in (i - 1)..Len(s) : j = Len(s) \/ Ch(s, j + 1) = "?"})

\* the first extraction pattern: the longest run without '?' that ends right
\* before a '?' at the end of the text
QuestionClause(s) ==
    IF Len(s) = 0 \/ Ch(s, Len(s)) # "?" THEN <<>>
    ELSE LET starts == {i \in 1..Len(s) : RunEnd(s, i) = Len(s) - 1}
         IN  <<SubSeq(s, Least(starts), Len(s) - 1)>>

\* the run captured at r, where w is the white space matched before it: the
\* longest non-empty run without '?', the white space giving back one character
\* when nothing else is left
ClauseRun(s, r, w) ==
    IF w = 0 THEN <<>>
    ELSE IF r <= Len(s) /\ Ch(s, r) # "?" THEN <<SubSeq(s, r, RunEnd(s, r))>>
    ELSE IF w >= 2 THEN <<SubSeq(s, r - 1, r - 1)>>
    ELSE <<>>

\* the white space and the run after a prefix of length n matched before p
ClauseAfter(s, p, n) ==
    IF n < 0 \/ p > Len(s) THEN <<>>
    ELSE ClauseRun(s, p + SpaceRun(s, p), SpaceRun(s, p))

\* the patterns  what is X, calculate X, solve X: the prefix (a sequence of
\* atoms), white space, then the longest non-empty run without '?'; case ignored
ClauseAt(s, i, prefix) ==
    ClauseAfter(s, i + AtomsLenAt(s, i, prefix), AtomsLenAt(s, i, prefix))

Clause(s, prefix) ==
    LET hits == {i \in 1..Len(s) : ClauseAt(s, i, prefix) # <<>>}
    IN  IF hits = {} THEN <<>> ELSE ClauseAt(s, Least(hits), prefix)

\* the character class of the raw arithmetic run: digits, + - * / ^ ( ) . and white space
IsArith(c) == IsDigit(c) \/ IsSpace(c) \/ c \in {"+", "-", "*", "/", "^", "(", ")", "."}

\* the last extraction pattern: the first run of characters of that class
ArithRun(s) ==
    LET hits == {i \in 1..Len(s) : IsArith(Ch(s, i))}
    IN  IF hits = {} THEN <<>>
        ELSE LET b == Least(hits)
                 e == Least({j \in b..Len(s) : j = Len(s) \/ ~IsArith(Ch(s, j + 1))})
             IN  <<SubSeq(s, b, e)>>

\* the first of a sequence of optional matches that is a match
RECURSIVE FirstMatch(_)
FirstMatch(ms) ==
    IF Len(ms) = 0 THEN <<>>
    ELSE IF ms[1] # <<>> THEN ms[1]
    ELSE FirstMatch(Tail(ms))

\* a plausible slip: the raw arithmetic run is tried first
MathMatch_ArithFirst(s) ==
    FirstMatch(<< ArithRun(s),
                  QuestionClause(s),
                  Clause(s, <<"what", "\\s+", "is">>),
                  Clause(s, <<"calculate">>),
                  Clause(s, <<"solve">>) >>)

\* the first of the five extraction patterns that matches
MathMatch(s) ==
    FirstMatch(<< QuestionClause(s),
                  Clause(s, <<"what", "\\s+", "is">>),
                  Clause(s, <<"calculate">>),
                  Clause(s, <<"solve">>),
                  ArithRun(s) >>)

\* what the match is cleaned to: the cue words removed again, then stripped
CleanExpr(user_input, match) ==
    IF match = <<>> THEN user_input
    ELSE Strip(ReSub(<< <<"what", "\\s+", "is">>, <<"calculate">>, <<"solve">> >>,
                     Strip(match[1])))

\* math_expr of the calculation branch
MathExpr(user_input) == CleanExpr(user_input, MathMatch(user_input))

HasDigit(s) == \E i \in 1..Len(s) : IsDigit(Ch(s, i))

IsQuote(c) == c \in {"\"", "'"}

\* the first quoted fragment: a quote, one or more characters that are no quote, a quote
QuotedAt(s, i) ==
    IF ~IsQuote(Ch(s, i)) THEN <<>>
    ELSE LET next == {j \in (i + 1)..Len(s) : IsQuote(Ch(s, j))}
         IN  IF next = {} \/ Least(next) = i + 1 THEN <<>>
             ELSE <<SubSeq(s, i + 1, Least(next) - 1)>>

Quoted(s) ==
    LET hits == {i \in 1..Len(s) : QuotedAt(s, i) # <<>>}
    IN  IF hits = {} THEN <<>> ELSE QuotedAt(s, Least(hits))

\* the backquote: a TLA+ string cannot hold one, so the tilde stands for it in
\* every text of the model
Backquote == "~"
Fence == Backquote \o Backquote \o Backquote

WordRun(s, i) ==
    Least({j \in i..Len(s) + 1 : j = Len(s) + 1 \/ ~IsWordChar(Ch(s, j))}) - i

\* the fenced block of the code branch: three backquotes, an optional word (the
\* language tag), an optional newline, the shortest text up to an optional newline
\* and three backquotes, with DOTALL.  <<tag, text>>, the tag "" when absent.
FencedAt(s, i) ==
    IF ~At(s, i, Fence) THEN <<>>
    ELSE LET w == WordRun(s, i + 3)
             a == i + 3 + w
             b == IF a <= Len(s) /\ Ch(s, a) = "\n" THEN a + 1 ELSE a
             close == {q \in b..Len(s) : At(s, q, Fence)}
         IN  IF close = {} THEN <<>>
             ELSE LET q == Least(close)
                      e == IF q - 1 >= b /\ Ch(s, q - 1) = "\n" THEN q - 2 ELSE q - 1
                  IN  <<SubSeq(s, i + 3, i + 2 + w), SubSeq(s, b, e)>>

Fenced(s) ==
    LET hits == {i \in 1..Len(s) : FencedAt(s, i) # <<>>}
    IN  IF hits = {} THEN <<>> ELSE FencedAt(s, Least(hits))

\* the rest of the line captured after the object that ends before r and the v
\* white-space characters at r: one character at least
RunClauseText(s, r, v) ==
    LET b == IF r + v <= Len(s) THEN r + v ELSE r + v - 1
    IN  IF (r + v > Len(s) /\ v = 0) \/ Ch(s, b) = "\n" THEN <<>>
        ELSE <<SubSeq(s, b, Least({j \in b..Len(s) : j = Len(s) \/ Ch(s, j + 1) = "\n"}))>>

\* this or a colon, of length m at p, then optional white space and the text
RunClauseObject(s, p, m) ==
    IF m < 0 THEN <<>>
    ELSE RunClauseText(s, p + m, IF p + m > Len(s) THEN 0 ELSE SpaceRun(s, p + m))

\* the w white-space characters at p, then the object
RunClauseSpace(s, p, w) ==
    IF w = 0 THEN <<>>
    ELSE RunClauseObject(s, p + w, AltLenAt(s, p + w, << <<"this">>, <<":">> >>))

\* the verb of length n at i, then white space
RunClauseVerb(s, i, n) ==
    IF n < 0 THEN <<>>
    ELSE RunClauseSpace(s, i + n, IF i + n > Len(s) THEN 0 ELSE SpaceRun(s, i + n))

\* the clause of the code branch: run or execute, white space, this or a colon,
\* optional white space, then the rest of the line (one character at least)
RunClauseAt(s, i) ==
    RunClauseVerb(s, i, AltLenAt(s, i, << <<"run">>, <<"execute">> >>))

RunClause(s) ==
    LET hits == {i \in 1..Len(s) : RunClauseAt(s, i) # <<>>}
    IN  IF hits = {} THEN <<>> ELSE RunClauseAt(s, Least(hits))

\* a plausible slip: the test of line 830 is missing and an empty query is
\* searched for
SearchPlan_SearchesAnyway(user_input) ==
    IF \E word \in {"search", "find", "look up", "news", "information"} :
           Contains(Lower(user_input), word)
    THEN Call("web_search",
              <<Strip(ReSub(<< <<"search">>, <<"find">>, <<"look up">>, <<"for">>,
                               <<"about">>, <<"latest">>, <<"current">>, <<"recent">> >>,
                            user_input))>>)
    ELSE Call("web_search", <<user_input>>)

\* the search branch (lines 825-832)
SearchPlan(user_input) ==
    LET user_lower == Lower(user_input)
        query ==
            IF \E word \in {"search", "find", "look up", "news", "information"} :
                   Contains(user_lower, word)
            THEN Strip(ReSub(<< <<"search">>, <<"find">>, <<"look up">>, <<"for">>,
                                <<"about">>, <<"latest">>, <<"current">>, <<"recent">> >>,
                             user_input))
            ELSE user_input
    IN  IF query # "" THEN Call("web_search", <<query>>) ELSE NoCall

\* the calculation branch (lines 836-856)
MathPlan(user_input) ==
    LET math_expr == MathExpr(user_input)
    IN  IF math_expr # "" /\ HasDigit(math_expr)
        THEN Call("solve_math", <<math_expr>>) ELSE NoCall

\* the language the run/execute clause is given (lines 880-884)
ClauseLang(code) ==
    IF Contains(Lower(code), "javascript") \/ Contains(Lower(code), "js:")
    THEN "javascript" ELSE "python"

\* the code of a run/execute clause: its quoted fragment, else the clause
\* without its outer quotes (lines 873-878)
ClauseCode(clause, quoted) ==
    IF quoted # <<>> THEN quoted[1] ELSE StripChars(clause, {"\"", "'"})

\* a plausible slip: the quoted fragment is looked for first
CodeCall_QuotedFirst(fenced, clause, quoted) ==
    IF quoted # <<>>
    THEN Call("execute_code", <<"python", quoted[1]>>)
    ELSE IF fenced # <<>>
    THEN Call("execute_code",
              <<IF fenced[1] = "" THEN "python" ELSE fenced[1], Strip(fenced[2])>>)
    ELSE IF clause # <<>>
    THEN Call("execute_code", <<ClauseLang(clause[1]), clause[1]>>)
    ELSE NoCall

\* the call for the first of the three code patterns that matches
CodeCall(fenced, clause, quoted) ==
    IF fenced # <<>>
    THEN Call("execute_code",
              <<IF fenced[1] = "" THEN "python" ELSE fenced[1], Strip(fenced[2])>>)
    ELSE IF clause # <<>>
    THEN Call("execute_code", <<ClauseLang(clause[1]), clause[1]>>)
    ELSE IF quoted # <<>>
    THEN Call("execute_code", <<"python", quoted[1]>>)
    ELSE NoCall

\* the run/execute clause of the input, as the code it names
RunCode(user_input) ==
    IF RunClause(user_input) = <<>> THEN <<>>
    ELSE <<ClauseCode(Strip(RunClause(user_input)[1]),
                      Quoted(Strip(RunClause(user_input)[1])))>>

\* the code branch (lines 860-894)
CodePlan(user_input) ==
    CodeCall(Fenced(user_input), RunCode(user_input), Quoted(user_input))

languages ==
    <<"spanish", "french", "german", "italian", "portuguese", "chinese", "japanese",
      "russian", "arabic">>

\* a plausible slip: the language named first in the user text is the target
TranslatePlan_FirstNamed(ai_response, user_input) ==
    LET found == {k \in 1..Len(languages) : Contains(Lower(user_input), languages[k])}
        at(k) == Least({p \in 1..Len(user_input) :
                           At(Lower(user_input), p, languages[k])})
    IN  IF found # {} /\ Quoted(user_input) # <<>>
        THEN Call("translate_text",
                  <<languages[CHOOSE k \in found : \A j \in found : at(k) <= at(j)],
                    Quoted(user_input)[1]>>)
        ELSE NoCall

\* the translation branch (lines 898-913)
TranslatePlan(ai_response, user_input) ==
    LET found == {k \in 1..Len(languages) :
                     \/ Contains(Lower(ai_response), languages[k])
                     \/ Contains(Lower(user_input), languages[k])}
    IN  IF found # {} /\ Quoted(user_input) # <<>>
        THEN Call("translate_text", <<languages[Least(found)], Quoted(user_input)[1]>>)
        ELSE NoCall

\* a plausible slip: the code group tested before the search group
DetectGroup_CodeFirst(ai_response, user_input) ==
    IF Cue(code_patterns, ai_response, user_input) THEN "code"
    ELSE IF Cue(search_patterns, ai_response, user_input) THEN "search"
    ELSE IF Cue(math_patterns, ai_response, user_input) THEN "math"
    ELSE IF Cue(translate_patterns, ai_response, user_input) THEN "translate"
    ELSE "none"

\* the branch of the if/elif chain at line 823 that is taken
DetectGroup(ai_response, user_input) ==
    IF Cue(search_patterns, ai_response, user_input) THEN "search"
    ELSE IF Cue(math_patterns, ai_response, user_input) THEN "math"
    ELSE IF Cue(code_patterns, ai_response, user_input) THEN "code"
    ELSE IF Cue(translate_patterns, ai_response, user_input) THEN "translate"
    ELSE "none"

\* a plausible slip: the file cues of lines 816-820, which no branch tests, get
\* a branch of their own that reads the file the user text names
DetectPlan_ReadsFiles(ai_response, user_input) ==
    IF Contains(Lower(ai_response), "let me read") \/ Contains(Lower(user_input), "let me read")
    THEN Call("read_file", <<user_input>>)
    ELSE IF DetectGroup(ai_response, user_input) = "search" THEN SearchPlan(user_input)
    ELSE IF DetectGroup(ai_response, user_input) = "math" THEN MathPlan(user_input)
    ELSE IF DetectGroup(ai_response, user_input) = "code" THEN CodePlan(user_input)
    ELSE IF DetectGroup(ai_response, user_input) = "translate"
    THEN TranslatePlan(ai_response, user_input)
    ELSE NoCall

\* a plausible slip: independent ifs in place of the elif chain, so that a
\* group that makes no call lets the next matching group make its own
DetectPlan_FallsThrough(ai_response, user_input) ==
    IF Cue(search_patterns, ai_response, user_input) /\ SearchPlan(user_input) # NoCall
    THEN SearchPlan(user_input)
    ELSE IF Cue(math_patterns, ai_response, user_input) /\ MathPlan(user_input) # NoCall
    THEN MathPlan(user_input)
    ELSE IF Cue(code_patterns, ai_response, user_input) /\ CodePlan(user_input) # NoCall
    THEN CodePlan(user_input)
    ELSE IF Cue(translate_patterns, ai_response, user_input)
    THEN TranslatePlan(ai_response, user_input)
    ELSE NoCall

\* detect_and_execute_tools: the one executor call it makes, or none
DetectPlan(ai_response, user_input) ==
    LET group == DetectGroup(ai_response, user_input)
    IN  IF group = "search" THEN SearchPlan(user_input)
        ELSE IF group = "math" THEN MathPlan(user_input)
        ELSE IF group = "code" THEN CodePlan(user_input)
        ELSE IF group = "translate" THEN TranslatePlan(ai_response, user_input)
        ELSE NoCall

(***************************************************************************)
(* Command Dispatcher.                                                     *)
(***************************************************************************)

Handled(call) == [handled |-> TRUE, call |-> call]
NotHandled == [handled |-> FALSE, call |-> NoCall]

\* the test of line 205: run the task as code, or have code generated for it
RunsDirectly(task) ==
    \/ StartsWith(task, "\"")
    \/ StartsWith(task, "'")
    \/ /\ PyLen(task) < 100
       /\ ~\E word \in {"function", "class", "def", "import", "create", "write",
                        "generate"} : Contains(Lower(task), word)

\* handle_command: whether the line is a command, and the call it makes
HandleCommand(user_input) ==
    LET parts == Split(user_input)
        n == Len(parts)
        command == IF n = 0 THEN "" ELSE Lower(parts[1])
        rest(k) == Join(SubSeq(parts, k, n))
    IN  IF n = 0 THEN NotHandled
        ELSE IF command = "clear" THEN Handled(Call("clear", <<>>))
        ELSE IF command = "history" THEN Handled(Call("show_history", <<>>))
        ELSE IF command = "save" THEN Handled(Call("save_session", <<>>))
        ELSE IF command = "context" THEN Handled(Call("show_context_info", <<>>))
        ELSE IF command = "/read" /\ n > 1 THEN Handled(Call("read_file", <<parts[2]>>))
        ELSE IF command = "/write" /\ n > 2
            THEN Handled(Call("write_file", <<parts[2], rest(3)>>))
        ELSE IF command = "/list"
            THEN Handled(Call("list_directory", <<IF n > 1 THEN parts[2] ELSE ".">>))
        ELSE IF command = "/search" /\ n > 2
            THEN Handled(Call("search_files", <<parts[2], parts[3]>>))
        ELSE IF command = "/status" THEN Handled(Call("show_status", <<>>))
        ELSE IF command = "/gpu" THEN Handled(Call("show_gpu_info", <<>>))
        ELSE IF command = "/ps" THEN Handled(Call("show_processes", <<>>))
        ELSE IF command = "/net" THEN Handled(Call("show_network_status", <<>>))
        ELSE IF command = "/curl" /\ n > 1 THEN Handled(Call("curl_request", <<parts[2]>>))
        ELSE IF command = "/ping" /\ n > 1 THEN Handled(Call("ping_host", <<parts[2]>>))
        ELSE IF command = "/websearch" /\ n > 1 THEN Handled(Call("web_search", <<rest(2)>>))
        ELSE IF command = "/math" /\ n > 1 THEN Handled(Call("solve_math", <<rest(2)>>))
        ELSE IF command = "/analyze" /\ n > 1 THEN Handled(Call("analyze_file", <<parts[2]>>))
        ELSE IF command = "/summary" /\ n > 1 THEN Handled(Call("summarize_text", <<rest(2)>>))
        ELSE IF command = "/code" /\ n > 2
            THEN IF RunsDirectly(rest(3))
                 THEN Handled(Call("execute_code",
                                   <<parts[2], StripChars(rest(3), {"\"", "'"})>>))
                 ELSE Handled(Call("generate_code", <<parts[2], rest(3)>>))
        ELSE IF command = "/translate" /\ n > 2
            THEN Handled(Call("translate_text", <<parts[2], rest(3)>>))
        ELSE IF command = "/model" THEN Handled(Call("show_model_info", <<>>))
        ELSE NotHandled

(***************************************************************************)
(* The inputs of the model.                                                *)
(***************************************************************************)

\* the lines typed at the prompt
Lines ==
    { "", "quit", "help", "clear", "context", "save", "history",
      "/math 2 + 2 * 10", "/math integrate x^2", "/math 9**9999",
      "/math __import__('os').system('id')", "/math os.getcwd()",
      "/code python print(1)", "/code cobol DISPLAY", "/code bash ls",
      "/websearch llamas", "/read notes.txt", "/analyze notes.txt",
      "search", "hello", "what is 2 + 2?", "~~~cobol DISPLAY~~~", LongLine }

\* lines that name a command with fewer arguments than it needs; a line whose
\* own text asks for a translation, and the commands that only read the host
ShortLines ==
    { "/read", "/write a.txt", "/search src", "/curl", "/ping", "/websearch",
      "/math", "/analyze", "/summary", "/code python", "/translate spanish" }

OtherLines ==
    { "say 'hello' in spanish", "llamas for dinner", "calculate 3 * 4",
      "~~~python print('a')~~~", "run this print(1)",
      "say 'hola' in german or french", "hello in spanish", "translate 'x' to dutch",
      "/list", "/search src py", "/status", "/gpu", "/ps", "/net", "/curl http://x",
      "/ping host", "/model", "/summary long text", "/code python write a sorter",
      "/translate french good day" }

\* a session of MaxHistory - 1 turns, as an earlier run saved it
LongSession ==
    [i \in 1..(MaxHistory - 1) |->
        Turn(IF i % 2 = 1 THEN "user" ELSE "assistant", Str(ToString(i)))]

\* a well-formed session of MaxHistory + 1 turns, which no run of the program
\* saves and load_session reads like any other
OverlongSession ==
    [i \in 1..(MaxHistory + 1) |->
        Turn(IF i % 2 = 1 THEN "user" ELSE "assistant", Str(ToString(i)))]

\* session files that save_session did not write, or wrote in an earlier run:
\* text that is no JSON, a document that is no object, a history whose items
\* are no turns, and a long session
MalformedFiles ==
    { BrokenFile,
      JsonFile(JArray(<<>>)),
      JsonFile(JObject(<<Member("history", JArray(<<JString("hi")>>))>>)) }

ForeignFiles ==
    MalformedFiles \cup {NoFile, JsonFile(JsonDump(LongSession)),
                         JsonFile(JsonDump(OverlongSession))}

\* the replies the model streams to a chat turn, as their content deltas
AiReplies ==
    { <<"ok">>,
      <<"let me search", ", then let me run it">>,
      <<"let me calculate">>,
      <<"let me run that">> }

(***************************************************************************)
(* The state of one Qwen3CLI process, its session file and its children.   *)
(***************************************************************************)

VARIABLES
    pc,                    \* where the process is: start, await, dispatch, chat_stream,
                           \* model_wait, child, done
    conversation_history,  \* Qwen3CLI.conversation_history
    session_file,          \* the file qwen3_session.json
    user_input,            \* the stripped line being processed
    plan,                  \* the call about to be made (pc = "dispatch")
    ai_response,           \* chat_with_ai: the deltas received so far
    stream,                \* chat_with_ai: the deltas the stream still holds
    waiting,               \* the executor whose model request is in flight
    temp_file,             \* execute_code holds a temporary source file
    child,                 \* the child process: none, running, exited, killed
    elapsed,               \* clock ticks the running child has run
    tempFiles,             \* temporary source files on disk
    calls,                 \* executor calls made for the current line
    modelReqs,             \* requests sent to the model for the current line
    messages,              \* the messages argument of the last of these requests;
                           \* SpecTeam: the list messages of run_cli_chat
    response,              \* SpecTeam: the last response orchestrator.run yielded
    runs,                  \* SpecTeam: the message list of every orchestrator.run call
    evals,                 \* evaluators the current line's expression was given to
    detected,              \* the arguments detect_and_execute_tools got for the line
    out,                   \* the diagnostics printed for the current line
    shown,                 \* the last output of show_context_info
    saved,                 \* <<h>>: the file holds the completed dump of history h
    appended,              \* SpecHist: every turn passed to add_to_history
    seed,                  \* SpecHist: the shift of the content lengths
    linesRead,             \* input lines read so far
    restarts,              \* fresh starts of the CLI so far
    keyboard,              \* the lines the user may type in this behaviour
    signals,               \* interrupt signals delivered while the line is processed
    exitSaves,             \* the histories the save_session calls of the exit paths got
    before                 \* chat_with_ai: the history when it was called

vars ==
    <<pc, conversation_history, session_file, user_input, plan, ai_response, stream,
      waiting, temp_file, child, elapsed, tempFiles, calls, modelReqs, messages, evals, detected,
      out, shown, saved, appended, seed, linesRead, restarts, keyboard, signals,
      exitSaves, before, response, runs>>

NoContext == [kind |-> "none", messages |-> 0, chars |-> 0, tokens |-> 0, available |-> 0]

\* Qwen3CLI.__init__ and the values of a process that has read no line yet
Fresh ==
    /\ conversation_history = <<>>
    /\ user_input = ""
    /\ plan = NoCall
    /\ ai_response = ""
    /\ stream = <<>>
    /\ waiting = ""
    /\ temp_file = FALSE
    /\ before = <<>>
    /\ signals = 0
    /\ exitSaves = <<>>
    /\ child = "none"
    /\ elapsed = 0
    /\ calls = <<>>
    /\ modelReqs = 0
    /\ response = [bound |-> FALSE, value |-> <<>>]
    /\ runs = <<>>
    /\ evals = {}
    /\ detected = <<>>
    /\ out = <<>>
    /\ shown = NoContext

Init ==
    /\ Fresh
    /\ messages = <<>>
    /\ pc = "start"
    /\ session_file = NoFile
    /\ tempFiles = 0
    /\ saved = <<>>
    /\ appended = <<>>
    /\ seed = 0
    /\ linesRead = 0
    /\ restarts = 0
    /\ keyboard = Lines

\* the variables only SpecHist changes
histOnly == <<appended, seed>>

\* the variables of a call in progress
callVars == <<user_input, plan, ai_response, stream, waiting, temp_file, before>>

\* a call ends: its variables are cleared
ResetCall ==
    /\ user_input' = ""
    /\ plan' = NoCall
    /\ ai_response' = ""
    /\ stream' = <<>>
    /\ waiting' = ""
    /\ temp_file' = FALSE
    /\ before' = <<>>

\* the process goes back to the prompt of the run loop
ToPrompt == pc' = "await" /\ ResetCall

(***************************************************************************)
(* Session persistence.                                                    *)
(***************************************************************************)

\* load_session (lines 52-61); run calls it before the loop.  json.load raising,
\* or data.get raising because the document is no object, is caught at line 60.
LoadSession ==
    /\ pc = "start"
    /\ pc' = "await"
    /\ IF session_file.state = "absent"
       THEN /\ conversation_history' = conversation_history
            /\ out' = <<>>
       ELSE IF session_file.state = "json" /\ session_file.doc.type = "object"
       THEN /\ conversation_history' = HistoryFromJson(session_file.doc)
            /\ out' = <<"loaded">>
       ELSE /\ conversation_history' = conversation_history
            /\ out' = <<"load_failed">>
    /\ UNCHANGED <<session_file, callVars, child, elapsed, tempFiles, calls, detected, signals, modelReqs, messages,
                   evals, shown, saved, histOnly, response, runs, linesRead, restarts, keyboard, exitSaves>>

\* what the file system does with the write of save_session
SaveOutcomes == {"written", "open_fails", "write_fails"}

\* save_session (lines 63-69): the file, and the warning printed, for an outcome
SaveSession(outcome) ==
    /\ session_file' = IF outcome = "written" THEN JsonFile(JsonDump(conversation_history))
                       ELSE IF outcome = "write_fails" THEN BrokenFile
                       ELSE session_file
    /\ saved' = IF outcome = "written" THEN <<conversation_history>>
                ELSE IF outcome = "write_fails" THEN <<>>
                ELSE saved

SaveWarning(outcome) == IF outcome = "written" THEN <<>> ELSE <<"save_failed">>

(***************************************************************************)
(* Session Controller: one iteration of the loop of run (lines 926-952),   *)
(* up to its first call.                                                   *)
(***************************************************************************)

\* how run would treat the stripped line if handle_command took every line that
\* starts with a slash as a command
LineKind_ShortAsCommand(line) ==
    IF line = "" THEN "empty"
    ELSE IF Lower(line) \in {"quit", "exit", "/q"} THEN "exit"
    ELSE IF Lower(line) \in {"help", "/help", "h"} THEN "help"
    ELSE IF HandleCommand(line).handled \/ SubSeq(line, 1, 1) = "/" THEN "command"
    ELSE "chat"

\* how run treats the stripped line: the tests of lines 930-945 in their order
LineKind(line) ==
    IF line = "" THEN "empty"
    ELSE IF Lower(line) \in {"quit", "exit", "/q"} THEN "exit"
    ELSE IF Lower(line) \in {"help", "/help", "h"} THEN "help"
    ELSE IF HandleCommand(line).handled THEN "command"
    ELSE "chat"

\* input() returns a line; what was recorded for the previous line (calls,
\* modelReqs, evals, out, child, elapsed) starts again
NewLine ==
    /\ pc = "await"
    /\ linesRead < MaxLines
    /\ linesRead' = linesRead + 1

ReadEmpty ==
    \E raw \in keyboard :
        /\ NewLine
        /\ LineKind(Strip(raw)) = "empty"
        /\ ToPrompt
        /\ calls' = <<>> /\ detected' = <<>> /\ signals' = 0 /\ modelReqs' = 0 /\ messages' = <<>> /\ evals' = {} /\ out' = <<>>
        /\ child' = "none" /\ elapsed' = 0
        /\ UNCHANGED <<conversation_history, session_file, tempFiles, shown, saved,
                       histOnly, response, runs, restarts, keyboard, exitSaves>>

\* the input has ended (it held MaxLines lines): input() raises EOFError, which
\* is an Exception and is caught at line 951
ReadEof ==
    /\ pc = "await"
    /\ linesRead = MaxLines
    /\ pc' = "read_failed"
    /\ ResetCall
    /\ calls' = <<>> /\ detected' = <<>> /\ signals' = 0 /\ modelReqs' = 0 /\ messages' = <<>> /\ evals' = {} /\ out' = <<>>
    /\ child' = "none" /\ elapsed' = 0
    /\ UNCHANGED <<conversation_history, session_file, tempFiles, shown, saved,
                   histOnly, response, runs, linesRead, restarts, keyboard, exitSaves>>

\* the handler of line 951 prints the error and the loop goes on to the next
\* input()
ReadErrorPrinted ==
    /\ pc = "read_failed"
    /\ out' = Append(out, "error")
    /\ pc' = "await"
    /\ UNCHANGED <<conversation_history, session_file, callVars, child, elapsed, tempFiles,
                   calls, detected, signals, modelReqs, messages, evals, shown, saved, histOnly, response, runs,
                   linesRead, restarts, keyboard, exitSaves>>

\* a call of save_session made as the loop ends, by the branch of the exit
\* line (line 932) or by the KeyboardInterrupt handler (line 949), with the
\* history it was given
ExitSave(h, by) == [history |-> h, by |-> by]

\* quit, exit or /q: the goodbye is printed and save_session is entered
ReadExit ==
    \E raw \in keyboard :
        /\ NewLine
        /\ LineKind(Strip(raw)) = "exit"
        /\ ResetCall /\ pc' = "exit_save"
        /\ calls' = <<>> /\ detected' = <<>> /\ signals' = 0 /\ modelReqs' = 0 /\ messages' = <<>> /\ evals' = {}
        /\ out' = <<"goodbye">>
        /\ child' = "none" /\ elapsed' = 0
        /\ UNCHANGED <<conversation_history, session_file, tempFiles, shown, saved,
                       histOnly, response, runs, restarts, keyboard, exitSaves>>

\* a plausible slip: an exit save that fails is tried again before the loop ends
ExitSaved_Retries ==
    \E outcome \in SaveOutcomes :
        /\ pc = "exit_save"
        /\ SaveSession(outcome)
        /\ exitSaves' = Append(exitSaves, ExitSave(conversation_history, "exit_line"))
        /\ out' = out \o SaveWarning(outcome)
        /\ pc' = IF outcome = "written" \/ Len(exitSaves) >= 1 THEN "done" ELSE "exit_save"
        /\ UNCHANGED <<conversation_history, callVars, child, elapsed, tempFiles, calls,
                       detected, signals, modelReqs, messages, evals, shown, histOnly, response, runs, linesRead,
                       restarts, keyboard>>

\* save_session returns to line 933 and the loop ends
ExitSaved ==
    \E outcome \in SaveOutcomes :
        /\ pc = "exit_save"
        /\ SaveSession(outcome)
        /\ exitSaves' = Append(exitSaves, ExitSave(conversation_history, "exit_line"))
        /\ out' = out \o SaveWarning(outcome)
        /\ pc' = "done"
        /\ UNCHANGED <<conversation_history, callVars, child, elapsed, tempFiles, calls,
                       detected, signals, modelReqs, messages, evals, shown, histOnly, response, runs, linesRead,
                       restarts, keyboard>>

ReadHelp ==
    \E raw \in keyboard :
        /\ NewLine
        /\ LineKind(Strip(raw)) = "help"
        /\ ToPrompt
        /\ calls' = <<>> /\ detected' = <<>> /\ signals' = 0 /\ modelReqs' = 0 /\ messages' = <<>> /\ evals' = {} /\ out' = <<"help">>
        /\ child' = "none" /\ elapsed' = 0
        /\ UNCHANGED <<conversation_history, session_file, tempFiles, shown, saved,
                       histOnly, response, runs, restarts, keyboard, exitSaves>>

\* handle_command recognises the line: its call is made next
ReadCommand ==
    \E raw \in keyboard :
        /\ NewLine
        /\ LineKind(Strip(raw)) = "command"
        /\ pc' = "dispatch"
        /\ user_input' = Strip(raw)
        /\ plan' = HandleCommand(Strip(raw)).call
        /\ calls' = <<>> /\ detected' = <<>> /\ signals' = 0 /\ modelReqs' = 0 /\ messages' = <<>> /\ evals' = {} /\ out' = <<>>
        /\ child' = "none" /\ elapsed' = 0
        /\ UNCHANGED <<conversation_history, session_file, ai_response, stream, waiting,
                       temp_file, before, tempFiles, shown, saved, histOnly, response, runs, restarts, keyboard, exitSaves>>

(***************************************************************************)
(* The conversation commands of handle_command (lines 132-145).            *)
(***************************************************************************)

Dispatching(fns) == pc = "dispatch" /\ plan.fn \in fns

CmdClear ==
    /\ Dispatching({"clear"})
    /\ conversation_history' = <<>>
    /\ out' = Append(out, "cleared")
    /\ ToPrompt
    /\ UNCHANGED <<session_file, child, elapsed, tempFiles, calls, detected, signals, modelReqs, messages, evals,
                   shown, saved, histOnly, response, runs, linesRead, restarts, keyboard, exitSaves>>

\* show_history slices the content of the last ten turns: None has no slice, and
\* the TypeError reaches the handler of run (line 951)
CmdHistory ==
    /\ Dispatching({"show_history"})
    /\ out' = Append(out, IF AllStr(LastN(conversation_history, 10))
                          THEN "history" ELSE "error")
    /\ ToPrompt
    /\ UNCHANGED <<conversation_history, session_file, child, elapsed, tempFiles, calls, detected, signals,
                   modelReqs, messages, evals, shown, saved, histOnly, response, runs, linesRead, restarts, keyboard, exitSaves>>

CmdSave ==
    \E outcome \in SaveOutcomes :
        /\ Dispatching({"save_session"})
        /\ SaveSession(outcome)
        /\ out' = out \o SaveWarning(outcome) \o <<"saved">>
        /\ ToPrompt
        /\ UNCHANGED <<conversation_history, child, elapsed, tempFiles, calls, detected, signals, modelReqs, messages,
                       evals, shown, histOnly, response, runs, linesRead, restarts, keyboard, exitSaves>>

CmdContext ==
    /\ Dispatching({"show_context_info"})
    /\ shown' = ShowContextInfo(conversation_history)
    /\ out' = Append(out, ShowContextInfo(conversation_history).kind)
    /\ ToPrompt
    /\ UNCHANGED <<conversation_history, session_file, child, elapsed, tempFiles, calls, detected, signals,
                   modelReqs, messages, evals, saved, histOnly, response, runs, linesRead, restarts, keyboard, exitSaves>>

\* the executors that read the host and touch neither the history nor the model
PlainTools ==
    {"read_file", "write_file", "list_directory", "search_files", "show_status",
     "show_gpu_info", "show_processes", "show_network_status", "curl_request",
     "ping_host", "show_model_info"}

\* a plausible slip: the executor records what it printed as a turn
PlainTool_Logs ==
    /\ Dispatching(PlainTools)
    /\ calls' = Append(calls, plan) /\ detected' = detected /\ signals' = signals
    /\ out' = Append(out, "tool_output")
    /\ conversation_history' = AddToHistory(conversation_history, "assistant", Str("output"))
    /\ ToPrompt
    /\ UNCHANGED <<session_file, child, elapsed, tempFiles,
                   modelReqs, messages, evals, shown, saved, histOnly, response, runs, linesRead, restarts, keyboard, exitSaves>>

PlainTool ==
    /\ Dispatching(PlainTools)
    /\ calls' = Append(calls, plan) /\ detected' = detected /\ signals' = signals
    /\ out' = Append(out, "tool_output")
    /\ ToPrompt
    /\ UNCHANGED <<conversation_history, session_file, child, elapsed, tempFiles,
                   modelReqs, messages, evals, shown, saved, histOnly, response, runs, linesRead, restarts, keyboard, exitSaves>>

(***************************************************************************)
(* The executors that delegate to the model: web_search, translate_text,   *)
(* summarize_text, generate_code, analyze_file.  Each appends its prompt   *)
(* as a user turn, sends the history, and appends the reply.               *)
(***************************************************************************)

\* the prompt each executor builds from its arguments
Prompt(call) ==
    IF call.fn = "web_search"
    THEN "Please search for current information about: " \o call.args[1]
         \o ". Provide the latest results you have access to, formatted as a concise summary with key points."
    ELSE IF call.fn = "translate_text"
    THEN "Please translate this text to " \o call.args[1] \o ": " \o call.args[2]
    ELSE IF call.fn = "summarize_text"
    THEN "Please summarize this text:\n" \o call.args[1]
    ELSE IF call.fn = "generate_code"
    THEN "Please generate " \o call.args[1] \o " code for: " \o call.args[2]
    ELSE IF call.fn = "solve_math"
    THEN "Solve this math problem step by step with full computational resources: "
         \o call.args[1] \o ". Show your work and provide the final answer."
    ELSE ""

\* the executor appends its prompt and sends the request, and sends it again
SendRequest_Twice(prompt) ==
    /\ conversation_history' = AddToHistory(conversation_history, "user", Str(prompt))
    /\ modelReqs' = modelReqs + 2
    /\ messages' = AddToHistory(conversation_history, "user", Str(prompt))
    /\ waiting' = plan.fn
    /\ pc' = "model_wait"
    /\ UNCHANGED <<user_input, plan, ai_response, stream, temp_file, before>>

\* a plausible slip: the request is built before the prompt is appended
SendRequest_BeforeAppend(prompt) ==
    /\ conversation_history' = AddToHistory(conversation_history, "user", Str(prompt))
    /\ modelReqs' = modelReqs + 1
    /\ messages' = conversation_history
    /\ waiting' = plan.fn
    /\ pc' = "model_wait"
    /\ UNCHANGED <<user_input, plan, ai_response, stream, temp_file, before>>

\* the executor appends its prompt and sends the request
SendRequest(prompt) ==
    /\ conversation_history' = AddToHistory(conversation_history, "user", Str(prompt))
    /\ modelReqs' = modelReqs + 1
    /\ messages' = AddToHistory(conversation_history, "user", Str(prompt))
    /\ waiting' = plan.fn
    /\ pc' = "model_wait"
    /\ UNCHANGED <<user_input, plan, ai_response, stream, temp_file, before>>

ModelTool ==
    /\ Dispatching({"web_search", "translate_text", "summarize_text", "generate_code"})
    /\ calls' = Append(calls, plan) /\ detected' = detected /\ signals' = signals
    /\ SendRequest(Prompt(plan))
    /\ UNCHANGED <<session_file, child, elapsed, tempFiles, evals, out, shown, saved,
                   histOnly, response, runs, linesRead, restarts, keyboard, exitSaves>>

\* content[:5000] and the truncation mark of analyze_file (lines 423-424)
Truncated(content) ==
    IF PyLen(content) > 5000
    THEN SubSeq(content, 1, 5000) \o "\n... (truncated for analysis)"
    ELSE content

\* analyze_file (lines 416-445): the file exists and is read
AnalyzeFile ==
    \E content \in {"alpha"} :
        /\ Dispatching({"analyze_file"})
        /\ calls' = Append(calls, plan) /\ detected' = detected /\ signals' = signals
        /\ SendRequest("Please analyze this file: " \o plan.args[1] \o "\n\nContent:\n"
                       \o Truncated(content))
        /\ UNCHANGED <<session_file, child, elapsed, tempFiles, evals, out, shown,
                       saved, histOnly, response, runs, linesRead, restarts, keyboard, exitSaves>>

\* analyze_file: os.path.exists(filename) is false
AnalyzeMissing ==
    /\ Dispatching({"analyze_file"})
    /\ calls' = Append(calls, plan) /\ detected' = detected /\ signals' = signals
    /\ out' = Append(out, "not_found")
    /\ ToPrompt
    /\ UNCHANGED <<conversation_history, session_file, child, elapsed, tempFiles,
                   modelReqs, messages, evals, shown, saved, histOnly, response, runs, linesRead, restarts, keyboard, exitSaves>>

\* the request returns a completed message: it is printed and appended
ModelReturns ==
    \E reply \in {Str("here you are"), PyNone} :
        /\ pc = "model_wait"
        /\ conversation_history' = AddToHistory(conversation_history, "assistant", reply)
        /\ out' = Append(out, "tool_result")
        /\ ToPrompt
        /\ UNCHANGED <<session_file, child, elapsed, tempFiles, calls, detected, signals, modelReqs, messages, evals,
                       shown, saved, histOnly, response, runs, linesRead, restarts, keyboard, exitSaves>>

\* the request raises: the executor's handler prints the error
ModelFails ==
    /\ pc = "model_wait"
    /\ out' = Append(out, "tool_error")
    /\ ToPrompt
    /\ UNCHANGED <<conversation_history, session_file, child, elapsed, tempFiles, calls, detected, signals,
                   modelReqs, messages, evals, shown, saved, histOnly, response, runs, linesRead, restarts, keyboard, exitSaves>>

(***************************************************************************)
(* Calculator: solve_math (lines 491-552).                                 *)
(***************************************************************************)

\* the three places an expression is handed to, with the names each can reach
EvalBuiltins == [site |-> "eval, line 504", names |-> "every builtin, math"]
EvalInScope == [site |-> "eval, line 512", names |-> "the globals and locals of solve_math"]
ShellEcho == [site |-> "subprocess.run, line 521", names |-> "a shell"]

Value(printable) == [returns |-> TRUE, printable |-> printable]
\* Python's eval on the expressions of the model.  The decimal form of 9**9999
\* has 9,542 digits, over the 4,300 that converting an int to str allows: the
\* print raises ValueError.  os is a name of solve_math's scope only.
PyEval(expression, evaluator) ==
    IF expression \in {"2 + 2 * 10", "2 + 2", "3 * 4", "__import__('os').system('id')"}
    THEN Value(TRUE)
    ELSE IF expression = "9**9999" THEN Value(FALSE)
    ELSE IF expression = "os.getcwd()" /\ evaluator = EvalInScope THEN Value(TRUE)
    ELSE [returns |-> FALSE, printable |-> FALSE]

\* the try block returns: eval gave a value and the result line was printed
Evaluated(expression, evaluator) ==
    PyEval(expression, evaluator).returns /\ PyEval(expression, evaluator).printable

\* the standard output of the shell started at line 521.  With shell=True and a
\* list, only 'echo' is the command; the expression is a positional parameter.
ShellStdout(expression) == "\n"

\* the evaluators the expression is handed to, in order, until one returns
EvaluatorsTried(expression) ==
    IF Evaluated(expression, EvalBuiltins) THEN {EvalBuiltins}
    ELSE IF Evaluated(expression, EvalInScope) THEN {EvalBuiltins, EvalInScope}
    ELSE {EvalBuiltins, EvalInScope, ShellEcho}

\* solve_math returns a result without the model
SolvedDirectly(expression) ==
    \/ Evaluated(expression, EvalBuiltins)
    \/ Evaluated(expression, EvalInScope)
    \/ Strip(ShellStdout(expression)) # ""

SolveMath ==
    /\ Dispatching({"solve_math"})
    /\ calls' = Append(calls, plan) /\ detected' = detected /\ signals' = signals
    /\ evals' = evals \cup EvaluatorsTried(plan.args[1])
    /\ IF SolvedDirectly(plan.args[1])
       THEN /\ out' = Append(out, "math_result")
            /\ ToPrompt
            /\ UNCHANGED <<conversation_history, modelReqs, messages>>
       ELSE /\ out' = out
            /\ SendRequest(Prompt(plan))
    /\ UNCHANGED <<session_file, child, elapsed, tempFiles, shown, saved, histOnly, response, runs,
                   linesRead, restarts, keyboard, exitSaves>>

\* the evaluators tried when KeyboardInterrupt is raised inside the one at
\* site: the bare except of that block (line 507, 515 or 530) catches it and
\* solve_math goes on with the next block
TriedAfterInterrupt(expression, site) ==
    IF site = EvalBuiltins /\ Evaluated(expression, EvalInScope)
    THEN {EvalBuiltins, EvalInScope}
    ELSE {EvalBuiltins, EvalInScope, ShellEcho}

\* KeyboardInterrupt arrives while solve_math evaluates the expression: the
\* call goes on to the next evaluator, or to the model, and run never sees it
SolveMathInterrupted ==
    /\ Dispatching({"solve_math"})
    /\ \E site \in EvaluatorsTried(plan.args[1]) :
        /\ calls' = Append(calls, plan) /\ detected' = detected
        /\ signals' = signals + 1
        /\ evals' = evals \cup TriedAfterInterrupt(plan.args[1], site)
        /\ IF site = EvalBuiltins /\ Evaluated(plan.args[1], EvalInScope)
           THEN /\ out' = Append(out, "math_result")
                /\ ToPrompt
                /\ UNCHANGED <<conversation_history, modelReqs, messages>>
           ELSE /\ out' = out
                /\ SendRequest(Prompt(plan))
        /\ UNCHANGED <<session_file, child, elapsed, tempFiles, shown, saved, histOnly, response, runs,
                       linesRead, restarts, keyboard, exitSaves>>

(***************************************************************************)
(* Code runner: execute_code (lines 554-677).                              *)
(***************************************************************************)

\* the languages of the branches at lines 562, 597, 620 and of the dict at 645
DispatchTable ==
    {"python", "bash", "shell", "sh", "javascript", "js",
     "java", "cpp", "c", "go", "rust", "ruby", "perl", "php"}

\* the branch that writes the source to a temporary file
UsesTempFile(language) == Lower(language) = "python"

ExecutingCode == Dispatching({"execute_code"})

\* python branch: the write of the source raises inside the with block of line
\* 568; the file was created with delete=False and the handler of line 676 runs
ExecWriteFails ==
    /\ ExecutingCode
    /\ UsesTempFile(plan.args[1])
    /\ calls' = Append(calls, plan) /\ detected' = detected /\ signals' = signals
    /\ tempFiles' = tempFiles + 1
    /\ out' = Append(out, "code_error")
    /\ ToPrompt
    /\ UNCHANGED <<conversation_history, session_file, child, elapsed, modelReqs, messages, evals,
                   shown, saved, histOnly, response, runs, linesRead, restarts, keyboard, exitSaves>>

\* subprocess.run raises before a child runs; the finally clause unlinks the file
ExecSpawnFails ==
    /\ ExecutingCode
    /\ Lower(plan.args[1]) \in DispatchTable
    /\ calls' = Append(calls, plan) /\ detected' = detected /\ signals' = signals
    /\ out' = Append(out, "execution_error")
    /\ ToPrompt
    /\ UNCHANGED <<conversation_history, session_file, child, elapsed, tempFiles,
                   modelReqs, messages, evals, shown, saved, histOnly, response, runs, linesRead, restarts, keyboard, exitSaves>>

\* the child is started; subprocess.run waits for it, with no timeout argument
ExecSpawn ==
    /\ ExecutingCode
    /\ Lower(plan.args[1]) \in DispatchTable
    /\ calls' = Append(calls, plan) /\ detected' = detected /\ signals' = signals
    /\ temp_file' = UsesTempFile(plan.args[1])
    /\ before' = before
    /\ tempFiles' = IF UsesTempFile(plan.args[1]) THEN tempFiles + 1 ELSE tempFiles
    /\ child' = "running"
    /\ elapsed' = 0
    /\ pc' = "child"
    /\ UNCHANGED <<conversation_history, session_file, user_input, plan, ai_response,
                   stream, waiting, modelReqs, messages, evals, out, shown, saved, histOnly, response, runs,
                   linesRead, restarts, keyboard, exitSaves>>

\* a plausible slip: the message for an unknown language is kept as a turn
ExecUnsupported_KeepsTurn ==
    /\ ExecutingCode
    /\ Lower(plan.args[1]) \notin DispatchTable
    /\ calls' = Append(calls, plan) /\ detected' = detected /\ signals' = signals
    /\ conversation_history' =
           AddToHistory(conversation_history, "assistant", Str("not configured"))
    /\ out' = Append(out, "unsupported_language")
    /\ ToPrompt
    /\ UNCHANGED <<session_file, child, elapsed, tempFiles, modelReqs, messages, evals, shown,
                   saved, histOnly, response, runs, linesRead, restarts, keyboard, exitSaves>>

\* the else branch of line 673: the language is not configured
ExecUnsupported ==
    /\ ExecutingCode
    /\ Lower(plan.args[1]) \notin DispatchTable
    /\ calls' = Append(calls, plan) /\ detected' = detected /\ signals' = signals
    /\ out' = Append(out, "unsupported_language")
    /\ ToPrompt
    /\ UNCHANGED <<conversation_history, session_file, child, elapsed, tempFiles,
                   modelReqs, messages, evals, shown, saved, histOnly, response, runs, linesRead, restarts, keyboard, exitSaves>>

\* time passes while subprocess.run waits
ChildTick ==
    /\ pc = "child"
    /\ elapsed < MaxElapsed
    /\ elapsed' = elapsed + 1
    /\ UNCHANGED <<pc, conversation_history, session_file, callVars, child, tempFiles,
                   calls, detected, signals, modelReqs, messages, evals, out, shown, saved, histOnly, response, runs, linesRead,
                   restarts, keyboard, exitSaves>>

\* the child exits: its output or its error is printed, the file is unlinked
ChildExits ==
    \E returncode \in {0, 1} :
        /\ pc = "child"
        /\ child' = "exited"
        /\ out' = Append(out, IF returncode = 0 THEN "exec_output" ELSE "exec_error")
        /\ tempFiles' = IF temp_file THEN tempFiles - 1 ELSE tempFiles
        /\ ToPrompt
        /\ UNCHANGED <<conversation_history, session_file, elapsed, calls, detected, signals, modelReqs, messages,
                       evals, shown, saved, histOnly, response, runs, linesRead, restarts, keyboard, exitSaves>>

(***************************************************************************)
(* chat_with_ai (lines 745-777) and its call of the Intent Detector.       *)
(***************************************************************************)

\* the line is a chat turn: the user turn is appended, the request is sent and
\* the stream opens
ChatStart ==
    \E raw \in keyboard, reply \in AiReplies :
        /\ NewLine
        /\ LineKind(Strip(raw)) = "chat"
        /\ user_input' = Strip(raw)
        /\ conversation_history' =
               AddToHistory(conversation_history, "user", Str(Strip(raw)))
        /\ modelReqs' = 1
        /\ messages' = <<Turn("system", Str("system_prompt"))>>
                        \o AddToHistory(conversation_history, "user", Str(Strip(raw)))
        /\ stream' = reply
        /\ ai_response' = ""
        /\ pc' = "chat_stream"
        /\ before' = <<conversation_history>>
        /\ calls' = <<>> /\ detected' = <<>> /\ signals' = 0 /\ evals' = {} /\ out' = <<>>
        /\ child' = "none" /\ elapsed' = 0
        /\ UNCHANGED <<session_file, plan, waiting, temp_file, tempFiles, shown, saved,
                       histOnly, response, runs, restarts, keyboard, exitSaves>>

\* the request raises: the handler of line 776 prints the error
ChatRequestFails ==
    \E raw \in keyboard :
        /\ NewLine
        /\ LineKind(Strip(raw)) = "chat"
        /\ conversation_history' =
               AddToHistory(conversation_history, "user", Str(Strip(raw)))
        /\ modelReqs' = 1
        /\ messages' = <<Turn("system", Str("system_prompt"))>>
                        \o AddToHistory(conversation_history, "user", Str(Strip(raw)))
        /\ ToPrompt
        /\ calls' = <<>> /\ detected' = <<>> /\ signals' = 0 /\ evals' = {} /\ out' = <<"chat_error">>
        /\ child' = "none" /\ elapsed' = 0
        /\ UNCHANGED <<session_file, tempFiles, shown, saved, histOnly, response, runs, restarts, keyboard, exitSaves>>

\* one chunk of the stream, put in front of what was received before it
ChatDelta_Prepends ==
    /\ pc = "chat_stream"
    /\ stream # <<>>
    /\ ai_response' = Head(stream) \o ai_response
    /\ stream' = Tail(stream)
    /\ UNCHANGED <<pc, conversation_history, session_file, user_input, plan, waiting,
                   temp_file, before, child, elapsed, tempFiles, calls, detected, signals, modelReqs, messages, evals, out,
                   shown, saved, histOnly, response, runs, linesRead, restarts, keyboard, exitSaves>>

\* one chunk of the stream: its content is printed and added to ai_response
ChatDelta ==
    /\ pc = "chat_stream"
    /\ stream # <<>>
    /\ ai_response' = ai_response \o Head(stream)
    /\ stream' = Tail(stream)
    /\ UNCHANGED <<pc, conversation_history, session_file, user_input, plan, waiting,
                   temp_file, before, child, elapsed, tempFiles, calls, detected, signals, modelReqs, messages, evals, out,
                   shown, saved, histOnly, response, runs, linesRead, restarts, keyboard, exitSaves>>

\* the stream raises before its end and nothing catches the exception: the
\* process ends with a traceback
ChatStreamFails_Propagates ==
    /\ pc = "chat_stream"
    /\ stream # <<>>
    /\ out' = Append(out, "traceback")
    /\ pc' = "done" /\ ResetCall
    /\ UNCHANGED <<conversation_history, session_file, child, elapsed, tempFiles, calls, detected, signals,
                   modelReqs, messages, evals, shown, saved, histOnly, response, runs, linesRead, restarts, keyboard, exitSaves>>

\* the stream raises before its end: the handler of line 776 prints the error
ChatStreamFails ==
    /\ pc = "chat_stream"
    /\ stream # <<>>
    /\ out' = Append(out, "chat_error")
    /\ ToPrompt
    /\ UNCHANGED <<conversation_history, session_file, child, elapsed, tempFiles, calls, detected, signals,
                   modelReqs, messages, evals, shown, saved, histOnly, response, runs, linesRead, restarts, keyboard, exitSaves>>

\* the stream ends: the reply is appended and detect_and_execute_tools resolves
\* the call to make, if any
ChatEnd ==
    /\ pc = "chat_stream"
    /\ stream = <<>>
    /\ conversation_history' =
           AddToHistory(conversation_history, "assistant", Str(ai_response))
    /\ detected' = Append(detected, [ai_response |-> ai_response,
                                     user_input |-> user_input])
    /\ signals' = signals
    /\ out' = Append(out, "detected " \o DetectGroup(ai_response, user_input))
    /\ IF DetectPlan(ai_response, user_input) = NoCall
       THEN ToPrompt
       ELSE /\ plan' = DetectPlan(ai_response, user_input)
            /\ pc' = "dispatch"
            /\ UNCHANGED <<user_input, ai_response, stream, waiting, temp_file, before>>
    /\ UNCHANGED <<session_file, child, elapsed, tempFiles, calls, modelReqs, messages, evals,
                   shown, saved, histOnly, response, runs, linesRead, restarts, keyboard, exitSaves>>

(***************************************************************************)
(* Interrupt and exit (lines 947-950), and the next start of the CLI.      *)
(***************************************************************************)

\* KeyboardInterrupt leaves the loop and the handler does not call save_session
Interrupt_SkipsSave ==
    /\ pc \in {"await", "dispatch", "chat_stream", "model_wait", "child", "exit_save"}
    /\ child' = IF pc = "child" THEN "killed" ELSE child
    /\ tempFiles' = IF pc = "child" /\ temp_file THEN tempFiles - 1 ELSE tempFiles
    /\ signals' = signals + 1
    /\ out' = Append(out, "goodbye")
    /\ ResetCall
    /\ pc' = "done"
    /\ UNCHANGED <<conversation_history, session_file, saved, exitSaves, elapsed, calls,
                   detected, modelReqs, messages, evals, shown, histOnly, response, runs, linesRead, restarts,
                   keyboard>>

\* KeyboardInterrupt at the prompt or while a call is in progress.  subprocess.run
\* kills the child it waits for and the finally clause of execute_code unlinks
\* the file before the handler of run saves the session and leaves the loop.
\* Inside the save_session of an exit line nothing catches it either (line 68
\* catches Exception): that call is left and the handler calls save_session again.
Interrupt ==
    \E outcome \in SaveOutcomes :
        /\ pc \in {"await", "dispatch", "chat_stream", "model_wait", "child", "exit_save"}
        /\ child' = IF pc = "child" THEN "killed" ELSE child
        /\ tempFiles' = IF pc = "child" /\ temp_file THEN tempFiles - 1 ELSE tempFiles
        /\ signals' = signals + 1
        /\ SaveSession(outcome)
        /\ exitSaves' = exitSaves
               \o (IF pc = "exit_save"
                   THEN <<ExitSave(conversation_history, "exit_line")>> ELSE <<>>)
               \o <<ExitSave(conversation_history, "interrupt")>>
        /\ out' = Append(out, "goodbye") \o SaveWarning(outcome)
        /\ ResetCall
        /\ pc' = "done"
        /\ UNCHANGED <<conversation_history, elapsed, calls, detected, modelReqs, messages, evals,
                       shown, histOnly, response, runs, linesRead, restarts, keyboard>>

\* the CLI is started again: a fresh Qwen3CLI, the disk as the last run left it
Restart ==
    /\ pc = "done"
    /\ restarts < MaxRestarts
    /\ restarts' = restarts + 1
    /\ pc' = "start"
    /\ conversation_history' = <<>>
    /\ ResetCall
    /\ child' = "none" /\ elapsed' = 0
    /\ calls' = <<>> /\ detected' = <<>> /\ signals' = 0 /\ modelReqs' = 0 /\ messages' = <<>> /\ evals' = {} /\ out' = <<>>
    /\ shown' = NoContext
    /\ exitSaves' = <<>>
    /\ UNCHANGED <<session_file, tempFiles, saved, histOnly, response, runs, linesRead, keyboard>>

Next ==
    \/ LoadSession
    \/ ReadEmpty
    \/ ReadEof
    \/ ReadErrorPrinted
    \/ ReadExit
    \/ ExitSaved
    \/ ReadHelp
    \/ ReadCommand
    \/ CmdClear
    \/ CmdHistory
    \/ CmdSave
    \/ CmdContext
    \/ PlainTool
    \/ ModelTool
    \/ AnalyzeFile
    \/ AnalyzeMissing
    \/ ModelReturns
    \/ ModelFails
    \/ SolveMath
    \/ SolveMathInterrupted
    \/ ExecWriteFails
    \/ ExecSpawnFails
    \/ ExecSpawn
    \/ ExecUnsupported
    \/ ChildTick
    \/ ChildExits
    \/ ChatStart
    \/ ChatRequestFails
    \/ ChatDelta
    \/ ChatStreamFails
    \/ ChatEnd
    \/ Interrupt
    \/ Restart

Spec == Init /\ [][Next]_vars

(***************************************************************************)
(* SpecHist: add_to_history alone, called MaxAppends times on an empty     *)
(* history, the roles alternating as in a chat, the n-th content holding   *)
(* the number n and a filler whose length follows the seed; every seventh  *)
(* content is empty.  show_context_info is called after each append.       *)
(***************************************************************************)

HistText(n, k) ==
    IF (n + k) % 7 = 0 THEN "" ELSE ToString(n) \o SubSeq(".....", 1, (n + k) % 6)

InitHist ==
    /\ Fresh
    /\ messages = <<>>
    /\ pc = "await"
    /\ session_file = NoFile
    /\ tempFiles = 0
    /\ saved = <<>>
    /\ appended = <<>>
    /\ seed \in 0..MaxSeed
    /\ linesRead = 0
    /\ restarts = 0
    /\ keyboard = Lines

HistAppend ==
    /\ Len(appended) < MaxAppends
    /\ LET n == Len(appended) + 1
           role == IF n % 2 = 1 THEN "user" ELSE "assistant"
           content == Str(HistText(n, seed))
       IN  /\ conversation_history' = AddToHistory(conversation_history, role, content)
           /\ appended' = Append(appended, Turn(role, content))
           /\ shown' = ShowContextInfo(
                           AddToHistory(conversation_history, role, content))
    /\ UNCHANGED <<pc, session_file, callVars, child, elapsed, tempFiles, calls,
                   detected, signals, modelReqs, messages, evals, out, saved, seed, linesRead, restarts,
                   keyboard, exitSaves, response, runs>>

NextHist == HistAppend

SpecHist == InitHist /\ [][NextHist]_vars

(***************************************************************************)
(* SpecLoad: the CLI is started on a session file it finds on the disk and *)
(* reads the last line of the behaviour, which may also be a short line.   *)
(***************************************************************************)

InitLoad ==
    /\ Fresh
    /\ messages = <<>>
    /\ pc = "start"
    /\ session_file \in ForeignFiles
    /\ tempFiles = 0
    /\ saved = <<>>
    /\ appended = <<>>
    /\ seed = 0
    /\ linesRead = MaxLines - 1
    /\ restarts = 0
    /\ keyboard = Lines \cup ShortLines \cup OtherLines

SpecLoad == InitLoad /\ [][Next]_vars

\* SpecEof: SpecLoad, with the process always taking its next step once the
\* input has ended: input() is called again and the handler of line 951 runs.
\* The user's interrupts and the next start are not forced.
SpecEof ==
    InitLoad /\ [][Next]_vars /\ WF_vars(ReadEof) /\ WF_vars(ReadErrorPrinted)

(***************************************************************************)
(* SpecTeam: run_cli_chat of examples/qwen3_thinking_team.py (lines         *)
(* 149-175).  pc is top (the head of the while loop), prompt (the input    *)
(* after a run), done (the break) or failed (an exception no handler       *)
(* catches).  The input holds MaxLines lines; orchestrator.run yields no   *)
(* response, or responses of which the last one is kept in response.       *)
(***************************************************************************)

\* lines 151-154: messages is empty, or holds the query argument
InitTeam ==
    /\ Fresh
    /\ pc = "top"
    /\ messages \in {<<>>, <<Turn("user", Str("plan a trip"))>>}
    /\ session_file = NoFile
    /\ tempFiles = 0
    /\ saved = <<>>
    /\ appended = <<>>
    /\ seed = 0
    /\ linesRead = 0
    /\ restarts = 0
    /\ keyboard = {"", "exit", "QUIT", "hello", "and then?"}

\* lines 157-161: messages is empty, a line is read; an empty line goes back
\* to the head of the loop, every other line is appended
TeamFirstPrompt ==
    /\ pc = "top"
    /\ messages = <<>>
    /\ IF linesRead = MaxLines
       THEN pc' = "failed" /\ UNCHANGED <<messages, linesRead>>
       ELSE \E query \in keyboard :
               /\ linesRead' = linesRead + 1
               /\ pc' = "top"
               /\ messages' = IF query = "" THEN messages
                               ELSE Append(messages, Turn("user", Str(query)))
    /\ UNCHANGED <<conversation_history, session_file, callVars, child, elapsed, tempFiles,
                   calls, detected, signals, modelReqs, evals, out, shown, saved, histOnly,
                   restarts, keyboard, exitSaves, response, runs>>

\* lines 163-169: orchestrator.run(messages=messages); the loop variable
\* response keeps the last response yielded (the one of an earlier run when
\* this run yields none) and messages is extended with it
TeamRun ==
    /\ pc = "top"
    /\ messages # <<>>
    /\ runs' = Append(runs, messages)
    /\ \E yielded \in { <<>>,
                         << <<Turn("assistant", Str("on it"))>> >>,
                         << <<Turn("assistant", Str("routing"))>>,
                            <<Turn("assistant", Str("routing")),
                              Turn("assistant", Str("done"))>> >> } :
            IF yielded = <<>> /\ ~response.bound
            THEN pc' = "failed" /\ UNCHANGED <<messages, response>>
            ELSE LET last == IF yielded = <<>> THEN response.value
                             ELSE yielded[Len(yielded)]
                 IN  /\ response' = [bound |-> TRUE, value |-> last]
                     /\ messages' = messages \o last
                     /\ pc' = "prompt"
    /\ UNCHANGED <<conversation_history, session_file, callVars, child, elapsed, tempFiles,
                   calls, detected, signals, modelReqs, evals, out, shown, saved, histOnly,
                   linesRead, restarts, keyboard, exitSaves>>

\* lines 170-175: the line read after a run
TeamNextPrompt ==
    /\ pc = "prompt"
    /\ IF linesRead = MaxLines
       THEN pc' = "failed" /\ UNCHANGED <<messages, linesRead>>
       ELSE \E next_query \in keyboard :
               /\ linesRead' = linesRead + 1
               /\ IF next_query = ""
                  THEN pc' = "top" /\ messages' = messages
                  ELSE IF Lower(next_query) \in {"exit", "quit"}
                  THEN pc' = "done" /\ messages' = messages
                  ELSE /\ pc' = "top"
                       /\ messages' = Append(messages, Turn("user", Str(next_query)))
    /\ UNCHANGED <<conversation_history, session_file, callVars, child, elapsed, tempFiles,
                   calls, detected, signals, modelReqs, evals, out, shown, saved, histOnly,
                   restarts, keyboard, exitSaves, response, runs>>

NextTeam ==
    \/ TeamFirstPrompt
    \/ TeamRun
    \/ TeamNextPrompt

SpecTeam == InitTeam /\ [][NextTeam]_vars

(***************************************************************************)
(* The claims.                                                             *)
(***************************************************************************)

\* C1, as stated: after N > 100 calls of add_to_history on an empty history, the
\* history has at most 100 turns and is exactly the last 100 turns appended.
C1_KeepsLastCap ==
    Len(appended) > MaxHistory =>
        /\ Len(conversation_history) <= MaxHistory
        /\ conversation_history = LastN(appended, MaxHistory)

\* C1, amended: after N calls of add_to_history on an empty history, the history
\* has at most 100 turns and is exactly its own length of the last turns
\* appended, in their order; the length is N up to 100 and, past 100, it is
\* 80 + ((N - 101) mod 21): the append that makes 101 turns cuts to the last 80.
C1_KeepsTrailingWindow ==
    LET N == Len(appended)
        h == conversation_history
    IN  /\ Len(h) <= MaxHistory
        /\ h = LastN(appended, Len(h))
        /\ N <= MaxHistory => Len(h) = N
        /\ N > MaxHistory =>
               Len(h) = KeepTurns + ((N - MaxHistory - 1) % (MaxHistory - KeepTurns + 1))

\* C1: the 101st append has cut the history to the last 80 turns
C1_Trimmed ==
    /\ Len(appended) = MaxHistory + 1
    /\ Len(conversation_history) = KeepTurns
    /\ conversation_history[1] = appended[MaxHistory + 2 - KeepTurns]

\* C2: a fresh Qwen3CLI that loads the session file a completed save_session
\* wrote holds the saved history, turn for turn and in the same order.
C2_RoundTrip ==
    (pc = "await" /\ out = <<"loaded">>) =>
        /\ saved # <<>>
        /\ conversation_history = saved[1]

\* C2: a restarted CLI has loaded a saved history of several turns, one of
\* them with the content None
C2_Reloaded ==
    /\ pc = "await"
    /\ out = <<"loaded">>
    /\ restarts > 0
    /\ saved # <<>>
    /\ Len(saved[1]) >= 2
    /\ ~AllStr(saved[1])
    /\ conversation_history = saved[1]

\* C3, as stated: when the texts given to detect_and_execute_tools match a
\* search cue and a code cue, exactly one tool is invoked and it is web_search.
C3_ExactlyOneSearch ==
    \A i \in 1..Len(detected) :
        ( /\ pc = "await"
          /\ Cue(search_patterns, detected[i].ai_response, detected[i].user_input)
          /\ Cue(code_patterns, detected[i].ai_response, detected[i].user_input) )
        => (Len(calls) = 1 /\ calls[1].fn = "web_search")

\* C3, amended: when the texts given to detect_and_execute_tools match a search
\* cue and a code cue, at most one tool is invoked and execute_code is not; the
\* tool is web_search on the query (the user input, with the search words
\* removed and the ends stripped when it holds one), invoked when that query is
\* not empty, and no tool is invoked when it is empty.
C3_SearchFirst ==
    \A i \in 1..Len(detected) :
        ( /\ Cue(search_patterns, detected[i].ai_response, detected[i].user_input)
          /\ Cue(code_patterns, detected[i].ai_response, detected[i].user_input) )
        => /\ Len(calls) <= 1
           /\ \A k \in 1..Len(calls) :
                  /\ calls[k].fn = "web_search"
                  /\ calls[k].args[1] # ""
                  /\ calls[k] = SearchPlan(detected[i].user_input)
           /\ pc = "dispatch" => plan = SearchPlan(detected[i].user_input)
           /\ pc = "await" =>
                  (calls = <<>>) = (SearchPlan(detected[i].user_input) = NoCall)

\* C3: the reply held both cues, and web_search was invoked on the input
C3_SearchChosen ==
    /\ pc = "await"
    /\ detected = << [ai_response |-> "let me search, then let me run it",
                     user_input |-> "~~~cobol DISPLAY~~~"] >>
    /\ calls = << Call("web_search", <<"~~~cobol DISPLAY~~~">>) >>

\* C4: solve_math asks the model only for an expression that cannot be
\* evaluated directly: while its request to the model is in flight (the prompt
\* already appended to the history), eval gives no value for the expression.
C4_ModelOnlyWhenNotEvaluable ==
    (pc = "model_wait" /\ waiting = "solve_math") =>
        /\ ~PyEval(plan.args[1], EvalBuiltins).returns
        /\ ~PyEval(plan.args[1], EvalInScope).returns

\* C5: no expression given to solve_math reaches an evaluator with access to
\* the interpreter's builtins, to the names of the process, or to a shell.
C5_RestrictedEvaluatorOnly ==
    evals \cap {EvalBuiltins, EvalInScope, ShellEcho} = {}

\* C6: execute_code does not wait for a child past the wall-clock timeout: no
\* child is still waited for after more than TimeoutTicks ticks.
C6_TimeoutEndsCall ==
    pc = "child" => elapsed <= TimeoutTicks

\* C7: outside execute_code's wait for its child, no temporary source file
\* exists: every path out of execute_code has removed the file it created.
C7_NoTempFileLeft ==
    pc # "child" => tempFiles = 0

\* C8: execute_code with a language that is not in the dispatch table reports
\* the unsupported language and returns to the prompt: no child is spawned, no
\* temporary file is made, no request is sent, nothing is raised and the
\* history is unchanged.
C8_UnsupportedLanguage ==
    [][ ( /\ pc = "dispatch"
          /\ plan.fn = "execute_code"
          /\ Lower(plan.args[1]) \notin DispatchTable
          /\ calls' # calls )
        => /\ pc' = "await"
           /\ out' = Append(out, "unsupported_language")
           /\ calls' = Append(calls, plan)
           /\ conversation_history' = conversation_history
           /\ child' = child
           /\ child' # "running"
           /\ tempFiles' = tempFiles
           /\ modelReqs' = modelReqs ]_vars

\* C8: /code cobol DISPLAY was answered with the unsupported-language message
C8_CobolRefused ==
    /\ pc = "await"
    /\ calls = << Call("execute_code", <<"cobol", "DISPLAY">>) >>
    /\ out = <<"unsupported_language">>
    /\ child = "none"

\* C9, as stated: the estimate of show_context_info after add_to_history
\* appends a turn with non-empty content is strictly greater than before.
C9_StrictlyGrows ==
    [][ ( /\ appended' # appended
          /\ appended'[Len(appended')].content.v # "" )
        => shown'.tokens > shown.tokens ]_vars

\* C9, amended: for a history of string contents and a turn with non-empty
\* string content, when the append does not trim (the history held fewer than
\* 100 turns), the estimate after the append is not smaller than before, and it
\* is strictly greater when the content has at least 4 characters.
C9_EstimateGrows ==
    [][ ( /\ appended' # appended
          /\ appended'[Len(appended')].content.v # ""
          /\ Len(conversation_history) < MaxHistory )
        => /\ shown'.kind = "context"
           /\ shown'.tokens >= shown.tokens
           /\ PyLen(appended'[Len(appended')].content.v) >= CharsPerToken
                  => shown'.tokens > shown.tokens ]_vars

\* C9: an append of four characters or more has raised the estimate
C9_Grown ==
    /\ appended # <<>>
    /\ Len(conversation_history) = Len(appended)
    /\ PyLen(appended[Len(appended)].content.v) >= CharsPerToken
    /\ shown.kind = "context"
    /\ shown.tokens > EstimatedTokens(SubSeq(appended, 1, Len(appended) - 1))
    /\ EstimatedTokens(SubSeq(appended, 1, Len(appended) - 1)) > 0

\* C10: the available capacity show_context_info reports is the window size
\* minus the estimate, floored at zero: it is never negative.
C10_AvailableFloored ==
    shown.kind = "context" =>
        /\ shown.available >= 0
        /\ shown.available = IF max_context_tokens - shown.tokens > 0
                             THEN max_context_tokens - shown.tokens ELSE 0

\* C11: load_session on a malformed session file (text that is no JSON, a
\* document that is no object, a history value that is no list of turns) leaves
\* the history empty and prints a diagnostic.
C11_MalformedLoadsEmpty ==
    [][ (pc = "start" /\ session_file \in MalformedFiles)
        => /\ conversation_history' = <<>>
           /\ out' = <<"load_failed">> ]_vars

\* C12: a failure of a tool executor or of the model client while a line is
\* dispatched becomes a diagnostic and the loop is back at awaiting input: a
\* step that prints a diagnostic ends at the prompt, and the loop ends only
\* with the goodbye of an exit line or of an interrupt.
C12_FailureBackToPrompt ==
    [][ /\ ( /\ out' # out /\ out' # <<>>
              /\ out'[Len(out')] \in {"tool_error", "chat_error", "code_error",
                                       "execution_error", "exec_error", "not_found",
                                       "error"} )
            => pc' = "await"
        /\ (pc # "done" /\ pc' = "done")
            => (\E i \in 1..Len(out') : out'[i] = "goodbye") ]_vars

\* C12: the request of a tool executor has failed and the loop awaits input
C12_ToolFailed ==
    /\ pc = "await"
    /\ calls # <<>>
    /\ out # <<>>
    /\ out[Len(out)] = "tool_error"

C14_InterruptEndsLoop ==
    signals > 0 =>
        /\ pc = "done"
        /\ exitSaves # <<>>

\* C15 as stated: one input line invokes at most one tool executor, and a chat
\* turn performs exactly one model request in total, the requests of a tool
\* fired by the detector counted in.
C15_OneRequestInTotal ==
    /\ Len(calls) <= 1
    /\ (pc = "chat_stream" \/ detected # <<>> \/ (out # <<>> /\ out[1] = "chat_error"))
        => modelReqs = 1

\* C15: one input line invokes at most one tool executor; a chat turn performs
\* exactly one model request for its reply and at most one more, which the
\* tool fired by the detector makes when it asks the model (web_search,
\* translate_text, or solve_math when no evaluator gave a result).
C15_OneRequestPerReply ==
    /\ Len(calls) <= 1
    /\ (pc = "chat_stream" \/ detected # <<>> \/ (out # <<>> /\ out[1] = "chat_error"))
        => /\ modelReqs \in {1, 2}
           /\ modelReqs = 2 =>
                  /\ calls # <<>>
                  /\ calls[1].fn \in {"web_search", "translate_text", "solve_math"}
                  /\ calls[1].fn = "solve_math" => ~SolvedDirectly(calls[1].args[1])
           /\ (detected = <<>> \/ calls = <<>>) => modelReqs = 1

\* C15: a chat turn has ended whose detector fired a tool that asked the model
C15_DetectedToolAsked ==
    /\ pc = "await"
    /\ detected # <<>>
    /\ Len(calls) = 1
    /\ modelReqs = 2
    /\ out[Len(out)] = "tool_result"

\* C16: for each command that needs arguments (/read, /write, /search, /curl,
\* /ping, /websearch, /math, /analyze, /summary, /code, /translate) a line with
\* too few of them makes handle_command return False with no executor called
\* and nothing printed, and run handles the line as a chat turn: the line is
\* appended as the user turn and the chat request is made.
C16_ShortLineIsChat ==
    /\ (pc = "start" /\ restarts = 0) =>
           \A l \in ShortLines \cup {"/write", "/search", "/code", "/translate"} :
               /\ ~HandleCommand(l).handled
               /\ HandleCommand(l).call = NoCall
               /\ LineKind(l) = "chat"
    /\ user_input \in ShortLines =>
           /\ pc \in {"chat_stream", "dispatch", "model_wait", "child"}
           /\ modelReqs >= 1
           /\ detected = <<>> =>
                  /\ pc = "chat_stream"
                  /\ calls = <<>>
                  /\ out = <<>>
                  /\ modelReqs = 1
                  /\ conversation_history[Len(conversation_history)]
                         = Turn("user", Str(user_input))

\* C16: the line /code python, which names no code, is being answered as a chat
\* turn
C16_ShortCodeLine ==
    /\ user_input = "/code python"
    /\ pc = "chat_stream"
    /\ calls = <<>>
    /\ ai_response # ""

\* C17: detect_and_execute_tools invokes at most one tool executor, that of
\* the first group, in the order search, calculation, code, translation, whose
\* cue matches the reply or the input; a later group never fires when an
\* earlier one matched, even when the earlier one ends with no invocation.
C17_FirstGroupOnly ==
    \A i \in 1..Len(detected) :
        LET a == detected[i].ai_response
            u == detected[i].user_input
            fns == {calls[k].fn : k \in 1..Len(calls)}
        IN  /\ Len(calls) <= 1
            /\ IF Cue(search_patterns, a, u) THEN fns \subseteq {"web_search"}
               ELSE IF Cue(math_patterns, a, u) THEN fns \subseteq {"solve_math"}
               ELSE IF Cue(code_patterns, a, u) THEN fns \subseteq {"execute_code"}
               ELSE IF Cue(translate_patterns, a, u) THEN fns \subseteq {"translate_text"}
               ELSE fns = {}

\* C17: the calculation group matched the reply and found no expression in the
\* input; the translation group, which matches the input and has a call to
\* make, did not fire
C17_LaterGroupSilent ==
    /\ pc = "await"
    /\ detected = << [ai_response |-> "let me calculate",
                     user_input |-> "say 'hello' in spanish"] >>
    /\ calls = <<>>
    /\ Cue(translate_patterns, "let me calculate", "say 'hello' in spanish")
    /\ TranslatePlan("let me calculate", "say 'hello' in spanish")
           = Call("translate_text", <<"spanish", "hello">>)

\* C18: while a chat reply streams, the history holds no assistant turn for
\* it: its last turn is the user turn of the line, and ai_response is the
\* concatenation, in order, of the deltas received so far.  The assistant turn
\* is appended only when the stream has ended, once (the call leaves the
\* stream with that step), and its content is the concatenation of all deltas.
C18_AppendAfterStream ==
    [][ LET RECURSIVE Cat(_)
            Cat(s) == IF s = <<>> THEN "" ELSE Head(s) \o Cat(Tail(s))
            h == conversation_history
        IN  /\ pc' = "chat_stream" =>
                   /\ \E r \in AiReplies : \E k \in 0..Len(r) :
                          /\ stream' = SubSeq(r, k + 1, Len(r))
                          /\ ai_response' = Cat(SubSeq(r, 1, k))
                   /\ h'[Len(h')] = Turn("user", Str(user_input'))
                   /\ pc = "chat_stream" => h' = h
            /\ (pc = "chat_stream" /\ h' # h) =>
                   /\ stream = <<>>
                   /\ pc' # "chat_stream"
                   /\ Len(h') = IF Len(h) + 1 > MaxHistory THEN KeepTurns ELSE Len(h) + 1
                   /\ h'[Len(h')] = Turn("assistant", Str(ai_response))
                   /\ SubSeq(h', 1, Len(h') - 1) = LastN(h, Len(h') - 1) ]_vars

\* C18: a reply that came in two deltas is in the history as one assistant
\* turn, after the user turn of its line
C18_TwoDeltasOneTurn ==
    /\ pc = "dispatch"
    /\ Len(conversation_history) = 2
    /\ conversation_history[1] = Turn("user", Str("hello"))
    /\ conversation_history[2]
           = Turn("assistant", Str("let me search, then let me run it"))

\* C19: when the chat request fails, or the stream fails or is interrupted
\* before its end, the history after chat_with_ai is the history of before
\* the line was processed.
C19_FailedChatRestores ==
    [][ /\ (pc = "await" /\ out' = <<"chat_error">>)
            => conversation_history' = conversation_history
        /\ (pc = "chat_stream" /\ stream # <<>> /\ pc' \in {"await", "done"})
            => conversation_history' = before[1] ]_vars

C21_TrimKeepsPairs ==
    [][ ( /\ appended' # appended
          /\ Len(conversation_history') <= Len(conversation_history) )
        => /\ conversation_history'[1].role = "user"
           /\ conversation_history'[2].role = "assistant" ]_vars

\* C22: in web_search, translate_text and summarize_text, a model call that
\* raises or returns empty or missing content is reported as an error and no
\* assistant turn is appended: the step that ends the request either leaves
\* the history as it is and prints the error, or appends a turn whose content
\* is a string that is not empty.
C22_NoEmptyReplyStored ==
    [][ ( /\ pc = "model_wait"
          /\ waiting \in {"web_search", "translate_text", "summarize_text"}
          /\ pc' = "await" )
        => \/ /\ conversation_history' = conversation_history
              /\ out'[Len(out')] = "tool_error"
           \/ /\ Len(conversation_history') > 0
              /\ conversation_history'[Len(conversation_history')].role = "assistant"
              /\ conversation_history'[Len(conversation_history')].content.t = "str"
              /\ conversation_history'[Len(conversation_history')].content.v # "" ]_vars

C24_SaveFailureWarnsOnly ==
    [][ /\ (\E i \in (Len(out) + 1)..Len(out') : out'[i] = "save_failed")
            => /\ conversation_history' = conversation_history
               /\ \A i \in (Len(out) + 1)..Len(out') : out'[i] # "error"
               /\ IF pc = "dispatch" /\ plan.fn = "save_session"
                  THEN pc' = "await" \/ (pc' = "done" /\ signals' > signals)
                  ELSE pc' = "done"
        /\ pc = "exit_save" => pc' = "done"
        /\ pc = "done" => (pc' = "start" /\ exitSaves' = <<>>) ]_vars

\* C24: the save command could not write the file: the warning is printed, the
\* history is still in memory and the loop awaits the next line
C24_SaveCommandFailed ==
    /\ pc = "await"
    /\ out = <<"save_failed", "saved">>
    /\ conversation_history # <<>>
    /\ session_file = BrokenFile

\* C25: the run loop ends exactly on an explicit exit of the user (an exit
\* line or an interrupt) or when the input can no longer be read: once the
\* input has ended the loop eventually ends instead of retrying the read for
\* ever, and a loop that ends without a goodbye ends on a failed read.
C25_EndOfInputEndsLoop ==
    /\ (pc = "read_failed") ~> (pc = "done")
    /\ [][ (pc # "done" /\ pc' = "done")
            => \/ \E i \in 1..Len(out') : out'[i] = "goodbye"
               \/ pc = "read_failed" ]_vars

\* C26: the read-only operations leave the history as it is: an empty line,
\* help, and the commands history, context, save, /read, /list, /search,
\* /status, /gpu, /ps, /net, /curl, /ping and /model neither append to it nor
\* trim or replace it, from the reading of the line to the return to the
\* prompt; and show_context_info changes nothing a later operation reads: the
\* loop is back at the prompt with the session file, the temporary files and
\* the lines read as they were.
C26_ReadOnlyKeepsHistory ==
    [][ /\ ( /\ pc = "await" /\ pc' = "await" /\ linesRead' = linesRead + 1
              /\ out' \in {<<>>, <<"help">>} )
            => conversation_history' = conversation_history
        /\ (pc = "await" /\ pc' = "dispatch")
            => conversation_history' = conversation_history
        /\ ( /\ pc = "dispatch" /\ detected = <<>>
              /\ Lower(Split(user_input)[1]) \in
                     {"history", "context", "save", "/read", "/list", "/search", "/status",
                      "/gpu", "/ps", "/net", "/curl", "/ping", "/model"} )
            => /\ conversation_history' = conversation_history
               /\ pc' \in {"await", "done"}
               /\ (plan.fn = "show_context_info" /\ pc' = "await")
                      => UNCHANGED <<session_file, tempFiles, linesRead, saved>> ]_vars

\* C26: /status has run on a loaded session of MaxHistory - 1 turns, which is
\* still the history
C26_StatusKeepsSession ==
    /\ pc = "await"
    /\ calls = << Call("show_status", <<>>) >>
    /\ out = <<"tool_output">>
    /\ conversation_history = LongSession

\* C27 as stated: when the search group is selected, the query is the user text
\* with the search words removed (and the ends stripped); web_search is called
\* on it, and when it is empty no executor is called for the turn and the
\* detector appends no turn: the history ends with the reply.
C27_QueryWithoutSearchWords ==
    \A i \in 1..Len(detected) :
        LET a == detected[i].ai_response
            u == detected[i].user_input
            h == conversation_history
            removed == Strip(ReSub(<< <<"search">>, <<"find">>, <<"look up">>, <<"for">>,
                                     <<"about">>, <<"latest">>, <<"current">>, <<"recent">> >>,
                                  u))
            query == removed
        IN  Cue(search_patterns, a, u) =>
                /\ pc = "dispatch" => plan = Call("web_search", <<query>>)
                /\ \A k \in 1..Len(calls) : calls[k] = Call("web_search", <<query>>)
                /\ query # "" => (pc = "await" => Len(calls) = 1)
                /\ query = "" =>
                       /\ pc \in {"await", "done"}
                       /\ calls = <<>>
                       /\ modelReqs = 1
                       /\ h[Len(h)] = Turn("assistant", Str(a))
                       /\ h[Len(h) - 1] = Turn("user", Str(u))

\* C27: when the search group is selected, the query is the user text with the
\* search words removed (and the ends stripped) when the user text holds
\* search, find, look up, news or information, and the user text as it is
\* otherwise; web_search is called on it, and when it is empty no executor is
\* called for the turn and the detector appends no turn.
C27_QueryOfSearchGroup ==
    \A i \in 1..Len(detected) :
        LET a == detected[i].ai_response
            u == detected[i].user_input
            h == conversation_history
            removed == Strip(ReSub(<< <<"search">>, <<"find">>, <<"look up">>, <<"for">>,
                                     <<"about">>, <<"latest">>, <<"current">>, <<"recent">> >>,
                                  u))
            query == IF \E word \in {"search", "find", "look up", "news", "information"} :
                            Contains(Lower(u), word)
                     THEN removed ELSE u
        IN  Cue(search_patterns, a, u) =>
                /\ pc = "dispatch" => plan = Call("web_search", <<query>>)
                /\ \A k \in 1..Len(calls) : calls[k] = Call("web_search", <<query>>)
                /\ query # "" => (pc = "await" => Len(calls) = 1)
                /\ query = "" =>
                       /\ pc \in {"await", "done"}
                       /\ calls = <<>>
                       /\ modelReqs = 1
                       /\ h[Len(h)] = Turn("assistant", Str(a))
                       /\ h[Len(h) - 1] = Turn("user", Str(u))

\* C27: the search group was selected for the line search, whose query is
\* empty: nothing was called and the history ends with the reply
C27_EmptyQuery ==
    /\ pc = "await"
    /\ detected = << [ai_response |-> "let me search, then let me run it",
                     user_input |-> "search"] >>
    /\ calls = <<>>
    /\ Len(conversation_history) = 2
    /\ conversation_history[2].role = "assistant"

\* C28: when the calculation group is selected, the expression is taken from
\* the first extraction pattern that matches the user text, in the order:
\* clause before a final question mark, what is X, calculate X, solve X, raw
\* run of arithmetic characters (the user text itself when none matches), with
\* the cue words removed and the ends stripped; solve_math is called on it
\* when it is not empty and holds a digit, and no executor is called otherwise.
C28_ExpressionOfMathGroup ==
    \A i \in 1..Len(detected) :
        LET a == detected[i].ai_response
            u == detected[i].user_input
            m == IF QuestionClause(u) # <<>> THEN QuestionClause(u)
                 ELSE IF Clause(u, <<"what", "\\s+", "is">>) # <<>>
                 THEN Clause(u, <<"what", "\\s+", "is">>)
                 ELSE IF Clause(u, <<"calculate">>) # <<>> THEN Clause(u, <<"calculate">>)
                 ELSE IF Clause(u, <<"solve">>) # <<>> THEN Clause(u, <<"solve">>)
                 ELSE ArithRun(u)
            e == CleanExpr(u, m)
        IN  (~Cue(search_patterns, a, u) /\ Cue(math_patterns, a, u)) =>
                /\ \A k \in 1..Len(calls) :
                       /\ calls[k] = Call("solve_math", <<e>>)
                       /\ e # ""
                       /\ HasDigit(e)
                /\ Len(calls) <= 1
                /\ IF e # "" /\ HasDigit(e)
                   THEN /\ pc = "dispatch" => plan = Call("solve_math", <<e>>)
                        /\ pc = "await" => Len(calls) = 1
                   ELSE /\ calls = <<>>
                        /\ pc \in {"await", "done"}

\* C28: the calculation group was selected for the line calculate 3 * 4 and
\* solve_math has run on the clause after calculate
C28_CalculateClause ==
    /\ pc = "await"
    /\ detected = << [ai_response |-> "ok", user_input |-> "calculate 3 * 4"] >>
    /\ calls = << Call("solve_math", <<"3 * 4">>) >>
    /\ out[Len(out)] = "math_result"

C30_TranslateTargetAndPayload ==
    \A i \in 1..Len(detected) :
        LET a == detected[i].ai_response
            u == detected[i].user_input
            occurs(k) == Contains(Lower(a), languages[k]) \/ Contains(Lower(u), languages[k])
            named == \E k \in 1..Len(languages) : occurs(k)
        IN  ( /\ ~Cue(search_patterns, a, u) /\ ~Cue(math_patterns, a, u)
              /\ ~Cue(code_patterns, a, u) /\ Cue(translate_patterns, a, u) ) =>
                /\ Len(calls) <= 1
                /\ \A k \in 1..Len(calls) :
                      /\ calls[k].fn = "translate_text"
                      /\ named /\ Quoted(u) # <<>>
                      /\ calls[k].args[2] = Quoted(u)[1]
                      /\ \E t \in 1..Len(languages) :
                            /\ calls[k].args[1] = languages[t]
                            /\ occurs(t)
                            /\ \A j \in 1..(t - 1) : ~occurs(j)
                /\ IF named /\ Quoted(u) # <<>>
                   THEN /\ pc = "dispatch" => plan.fn = "translate_text"
                        /\ pc = "await" => Len(calls) = 1
                   ELSE /\ calls = <<>>
                        /\ pc \in {"await", "done"}

\* C30: the translation group was selected for a line naming german before
\* french: the quoted fragment was sent for translation to french
C30_ListOrderTarget ==
    /\ pc = "await"
    /\ detected = << [ai_response |-> "ok",
                     user_input |-> "say 'hola' in german or french"] >>
    /\ calls = << Call("translate_text", <<"french", "hola">>) >>

\* C31: in every reachable state of a session, the state right after
\* load_session of a well-formed session file included, the history holds at
\* most MaxHistory turns.
C31_AtMostMaxHistory ==
    Len(conversation_history) <= MaxHistory

\* C32: every request sent to the model (by chat_with_ai, web_search,
\* translate_text, summarize_text, analyze_file, generate_code and the model
\* step of solve_math) carries a message list whose last message is the user
\* turn the same step appended, also when that append trimmed the history;
\* and an assistant turn is appended only by the step that ends the wait for
\* a request, right after the user turn that request ended with.
C32_RequestEndsWithOwnTurn ==
    [][ LET h == conversation_history
            n == Len(conversation_history')
        IN  /\ ( /\ modelReqs' > 0
                  /\ (modelReqs' # modelReqs \/ linesRead' # linesRead) )
                => /\ messages' # <<>>
                   /\ n > 0
                   /\ messages'[Len(messages')] = conversation_history'[n]
                   /\ conversation_history'[n].role = "user"
                   /\ \/ /\ n = Len(h) + 1
                         /\ SubSeq(conversation_history', 1, n - 1) = h
                      \/ /\ n = KeepTurns
                         /\ Len(h) >= MaxHistory
                         /\ SubSeq(conversation_history', 1, n - 1) = LastN(h, n - 1)
            /\ ( /\ pc # "start" /\ pc' # "start"
                  /\ conversation_history' # h
                  /\ n > 0
                  /\ conversation_history'[n].role = "assistant" )
                => /\ pc \in {"chat_stream", "model_wait"}
                   /\ pc' \notin {"chat_stream", "model_wait"}
                   /\ modelReqs >= 1 /\ modelReqs' = modelReqs
                   /\ messages' = messages
                   /\ h # <<>>
                   /\ h[Len(h)] = messages[Len(messages)] ]_vars

\* C32: web_search has appended its prompt to a loaded session of more than
\* MaxHistory turns: the append trimmed the history, and the request in flight
\* carries the trimmed list, which ends with the prompt
C32_TrimmedRequest ==
    /\ pc = "model_wait"
    /\ waiting = "web_search"
    /\ Len(messages) = KeepTurns
    /\ messages = conversation_history
    /\ messages[1] = OverlongSession[MaxHistory + 3 - KeepTurns]
    /\ messages[KeepTurns] = Turn("user", Str(Prompt(Call("web_search", <<"llamas">>))))

\* C33: in run_cli_chat every orchestrator.run call is preceded by the append
\* of exactly one new user message since the run before it (the k-th run gets
\* a list of k user messages), so no two runs get the same message list; and
\* the words exit and quit, typed at a prompt, are never sent to the
\* orchestrator.
C33_OneNewMessagePerRun ==
    LET users(m) == {i \in 1..Len(m) : m[i].role = "user"}
    IN  /\ \A k \in 1..Len(runs) : Cardinality(users(runs[k])) = k
        /\ \A j, k \in 1..Len(runs) : j # k => runs[j] # runs[k]
        /\ \A k \in 1..Len(runs) : \A i \in users(runs[k]) :
              Lower(runs[k][i].content.v) \notin {"exit", "quit"}

====
